---- MODULE Spec2Model ----
(***************************************************************************)
(* neu-scholar-backend: hybrid retrieval and multi-provider generation.    *)
(*                                                                         *)
(* The module holds four state machines over one set of variables:         *)
(*   Spec          the HTTP handlers POST /api/agent (app.js) and          *)
(*                 GET /search/all (search.js)                             *)
(*   SpecRetrieve  one retrieve call: vectorSearch (search.js) and the     *)
(*                 in-memory ranking conferenceVectorSearch / safeRank     *)
(*   SpecImport    runImport of import.js, started by boot and by cron     *)
(*   SpecScript    the ingestion script (main IIFE / importCollection)     *)
(* Each specification leaves the other machines' variables at their        *)
(* initial values.                                                         *)
(***************************************************************************)
EXTENDS Integers, Sequences, FiniteSets, TLC

VARIABLES
    \* ---- POST /api/agent, GET /search/all ----
    route,          \* which handler serves the request: "agent" | "searchAll"
    apc,            \* position of the handler
    req,            \* req.body of /api/agent
    conferences,    \* let conferences
    journals,       \* let journals
    confOutcome,    \* history: how conferenceVectorSearch ended
    jourOutcome,    \* history: how journalVectorSearch ended
    tryProviders,   \* const tryProviders
    pidx,           \* position of the for..of loop in tryProviders (1-based)
    answer,         \* let answer
    usedProvider,   \* let usedProvider
    lastError,      \* let lastError (an error message, or NULL)
    invoked,        \* history: the provider calls made, in order, with their outcome
    response,       \* what res.json / res.status().json sent, NoResponse before
    sentCount,      \* history: number of responses sent on this request
    \* ---- one process serving retrieve calls (search.js) ----
    impl,           \* which search.js is deployed: "vectorSearch" | "safeRank"
    store,          \* the documents of each collection, in natural order
    envIndex,       \* ENV_CONFERENCE_INDEX / ENV_JOURNAL_INDEX, per collection
    fieldCache,     \* FIELD_CACHE: collection -> field name, "" when not cached
    embedder,       \* _embedderPromise: "unset" | "loaded" | "failed"
    callNo,         \* number of retrieve calls started
    vpc,            \* position inside the current call
    vargs,          \* the call's arguments [collection, q, limit]
    qv,             \* const qv / qVec: the query vector, <<>> for null or []
    embedFailed,    \* history: the embedding of the query failed in this call
    vpath,          \* const path
    vidx,           \* position of the loop over the candidate index names
    vlog,           \* history: the store queries made by this call, in order
    vresult,        \* how the call ended
    embedLoads,     \* history: the calls during which pipeline(...) was started
    \* ---- ingestion (import.js started by app.js, and the ingestion script) ----
    sourceData,     \* what data.json / the two source APIs hold at the moment
    outputs,        \* what the embedding pipeline returns: "array" | "tensor"
    booted,         \* the app.listen callback has run
    runs,           \* the ingestion runs: run number -> its local state
    \* ---- the process-wide singletons and their concurrent first uses ----
    gclient,        \* let _client: the MongoClient it names, 0 while undefined
    gdb,            \* let _db: the client whose db handle it holds, 0 while undefined
    made,           \* history: the number of MongoClient objects constructed
    connected,      \* history: the clients whose connect() succeeded
    embGuard,       \* which code guards the pipeline: "getEmbedder" | "initEmbedding"
    embCache,       \* let _embedderPromise / let embedder: a pipeline, 0 while unset
    loads,          \* history: the number of pipeline(...) calls
    pipesLoaded,         \* the pipeline(...) promises that are fulfilled
    callers         \* the concurrent callers: caller -> [target, pc, mine, got]

agentVars == <<route, apc, req, conferences, journals, confOutcome, jourOutcome,
               tryProviders, pidx, answer, usedProvider, lastError, invoked,
               response, sentCount>>

retrVars == <<impl, store, envIndex, fieldCache, embedder, callNo, vpc, vargs, qv,
              embedFailed, vpath, vidx, vlog, vresult, embedLoads>>

ingestVars == <<sourceData, outputs, booted, runs>>

singletonVars == <<gclient, gdb, made, connected, embGuard, embCache, loads, pipesLoaded,
                   callers>>

vars == <<agentVars, retrVars, ingestVars, singletonVars>>

\* everything but the handlers' variables
nonHandlerVars == <<retrVars, ingestVars, singletonVars>>

\* everything but the variables of the retrieve calls
nonRetrieveVars == <<agentVars, ingestVars, singletonVars>>

\* everything but the singletons and their callers
nonSingletonVars == <<agentVars, retrVars, ingestVars>>

\* what an ingestion run leaves alone: everything but the store and its own variables
nonIngestVars == <<agentVars, impl, envIndex, fieldCache, embedder, callNo, vpc, vargs,
                   qv, embedFailed, vpath, vidx, vlog, vresult, embedLoads,
                   singletonVars>>

----------------------------------------------------------------------------
(* JavaScript values *)

\* null / undefined
NULL == "<null>"

\* !v for the values the handlers test: null, undefined and "" are falsy
Falsy(v) == v = NULL \/ v = ""

\* Array.prototype.slice(0, n)
Slice0(s, n) == SubSeq(s, 1, IF n < Len(s) THEN n ELSE Len(s))

\* Strings that are inspected character by character (questions, queries,
\* searched fields) are sequences of one-character strings.
IsSpace(c) == c = " "

RECURSIVE TrimStart(_)
TrimStart(s) == IF Len(s) > 0 /\ IsSpace(Head(s)) THEN TrimStart(Tail(s)) ELSE s

RECURSIVE TrimEnd(_)
TrimEnd(s) ==
    IF Len(s) > 0 /\ IsSpace(s[Len(s)]) THEN TrimEnd(SubSeq(s, 1, Len(s) - 1)) ELSE s

\* String.prototype.trim
Trim(s) == TrimEnd(TrimStart(s))

\* String.prototype.toLowerCase on the provider names the model sends
ToLowerCase(s) ==
    CASE s = "OpenAI" -> "openai"
      [] s = "QWEN"   -> "qwen"
      [] OTHER        -> s

----------------------------------------------------------------------------
(* llm.js *)

\* export const llmMap = { qwen, openai, gemini, local }
llmMap == {"qwen", "openai", "gemini", "local"}

\* llmMap[p]: llmMap is an object literal, so besides its four own entries a
\* lookup finds what Object.prototype holds. Of the names that survive
\* toLowerCase(), "constructor" gives the function Object and "__proto__"
\* gives Object.prototype itself: both truthy. Any other name gives undefined.
LlmMapEntry(p) ==
    CASE p \in llmMap      -> "provider"
      [] p = "constructor" -> "Object"
      [] p = "__proto__"   -> "prototype"
      [] OTHER             -> "undefined"

\* err.message of the TypeError of calling a value that is not a function
NotAFunction == "llmMap[p] is not a function"

\* The ways one call of llmMap[p] can end: it returns res...content (a text),
\* returns "" (a response without content: `|| ""`), or throws
\* new Error(`<Name> error: ...`).
ProviderOutcomes == {"text", "empty", "timeout", "auth"}

ProviderLabel(p) ==
    CASE p = "qwen"   -> "Qwen"
      [] p = "openai" -> "OpenAI"
      [] p = "gemini" -> "Gemini"
      [] p = "local"  -> "Local"

\* err.message of the Error a provider function throws
ErrorMessage(p, o) == ProviderLabel(p) \o " error: " \o o

\* the string a provider function returns; Object(prompt, model) returns the
\* prompt, wrapped in a String object (truthy whatever it holds)
ReturnedText(p, o) ==
    CASE o = "text"   -> "answer by " \o p
      [] o = "object" -> "the prompt"
      [] OTHER        -> ""

----------------------------------------------------------------------------
(* app.js: POST /api/agent *)

\* const DEFAULT_LLM_PROVIDER = (process.env.DEFAULT_LLM_PROVIDER || "qwen").toLowerCase()
DEFAULT_LLM_PROVIDER == ToLowerCase("qwen")

\* the request bodies sent
Questions == {<<>>, <<" ">>, <<"q">>, <<" ", "q", " ">>}
RequestedProviders == {NULL, "QWEN", "openai", "OpenAI", "gemini", "local", "claude",
                       "constructor", "__proto__"}
Models == {NULL, "m1"}
Topks == {1, 5}

\* how a retrieval call ended: not made, in flight, rejected, or fulfilled
\* with a list of records
NotCalled == [kind |-> "none", value |-> <<>>]
Pending == [kind |-> "pending", value |-> <<>>]
Threw == [kind |-> "threw", value |-> <<>>]
Fulfilled(r) == [kind |-> "ok", value |-> r]

\* no response sent yet
NoResponse == [status |-> 0]

\* what a retrieval call resolves to (record ids), and fetchArticles
ConferenceResults == {<<>>, <<"c1">>, <<"c1", "c2">>}
JournalResults == {<<>>, <<"j1">>}
ArticleResults == {<<>>, <<"a1", "a2">>}

\* const tryProviders = [(provider || DEFAULT_LLM_PROVIDER).toLowerCase(), "openai", "local"]
TryProviders(provider) ==
    << ToLowerCase(IF Falsy(provider) THEN DEFAULT_LLM_PROVIDER ELSE provider),
       "openai", "local" >>

InitAgent ==
    /\ route \in {"agent", "searchAll"}
    /\ apc = "start"
    /\ req \in [question : Questions, provider : RequestedProviders,
                model : Models, topk : Topks]
    /\ (route = "searchAll") =>
           req = [question |-> <<"q">>, provider |-> NULL, model |-> NULL, topk |-> 5]
    /\ conferences = <<>>
    /\ journals = <<>>
    /\ confOutcome = NotCalled
    /\ jourOutcome = NotCalled
    /\ tryProviders = <<>>
    /\ pidx = 1
    /\ answer = NULL
    /\ usedProvider = NULL
    /\ lastError = NULL
    /\ invoked = <<>>
    /\ response = NoResponse
    /\ sentCount = 0

\* if (!question?.trim()) return res.status(400).json({ error: "Missing question" })
AgentValidate ==
    /\ route = "agent" /\ apc = "start"
    /\ UNCHANGED nonHandlerVars
    /\ IF Len(Trim(req.question)) = 0
         THEN /\ response' = [status |-> 400, error |-> "Missing question"]
              /\ sentCount' = sentCount + 1
              /\ apc' = "done"
         ELSE /\ apc' = "conference"
              /\ UNCHANGED <<response, sentCount>>
    /\ UNCHANGED <<route, req, conferences, journals, confOutcome, jourOutcome,
                   tryProviders, pidx, answer, usedProvider, lastError, invoked>>

\* try { conferences = await conferenceVectorSearch(question, Number(topk)) }
\* catch (e) { console.error(...) }
AgentConferenceSearch ==
    /\ route = "agent" /\ apc = "conference"
    /\ UNCHANGED nonHandlerVars
    /\ \/ /\ confOutcome' = Threw
          /\ UNCHANGED conferences
       \/ \E r \in ConferenceResults :
             /\ confOutcome' = Fulfilled(r)
             /\ conferences' = r
    /\ apc' = "journal"
    /\ UNCHANGED <<route, req, journals, jourOutcome, tryProviders, pidx, answer,
                   usedProvider, lastError, invoked, response, sentCount>>

\* try { journals = await journalVectorSearch(question, Number(topk)) }
\* catch (e) { console.error(...) }
AgentJournalSearch ==
    /\ route = "agent" /\ apc = "journal"
    /\ UNCHANGED nonHandlerVars
    /\ \/ /\ jourOutcome' = Threw
          /\ UNCHANGED journals
       \/ \E r \in JournalResults :
             /\ jourOutcome' = Fulfilled(r)
             /\ journals' = r
    /\ apc' = "articles"
    /\ UNCHANGED <<route, req, conferences, confOutcome, tryProviders, pidx, answer,
                   usedProvider, lastError, invoked, response, sentCount>>

\* if (!conferences?.length) { articles = await fetchArticles();
\*                             conferences = articles.slice(0, topk) }
\* const prompt = buildPrompt(...); const tryProviders = [...]
AgentFallbackAndPrompt ==
    /\ route = "agent" /\ apc = "articles"
    /\ UNCHANGED nonHandlerVars
    /\ IF Len(conferences) = 0
         THEN \E articles \in ArticleResults :
                 conferences' = Slice0(articles, req.topk)
         ELSE UNCHANGED conferences
    /\ tryProviders' = TryProviders(req.provider)
    /\ pidx' = 1
    /\ apc' = "loop"
    /\ UNCHANGED <<route, req, journals, confOutcome, jourOutcome, answer,
                   usedProvider, lastError, invoked, response, sentCount>>

\* for (const p of tryProviders) { if (!llmMap[p]) continue;
LoopSkipUnknown ==
    /\ route = "agent" /\ apc = "loop"
    /\ UNCHANGED nonHandlerVars
    /\ pidx <= Len(tryProviders)
    /\ LlmMapEntry(tryProviders[pidx]) = "undefined"
    /\ pidx' = pidx + 1
    /\ UNCHANGED <<route, apc, req, conferences, journals, confOutcome, jourOutcome,
                   tryProviders, answer, usedProvider, lastError, invoked,
                   response, sentCount>>

\* ... await llmMap[p](prompt, model): the call is issued
LoopInvoke ==
    /\ route = "agent" /\ apc = "loop"
    /\ UNCHANGED nonHandlerVars
    /\ pidx <= Len(tryProviders)
    /\ LlmMapEntry(tryProviders[pidx]) = "provider"
    /\ invoked' = Append(invoked, [p |-> tryProviders[pidx], outcome |-> "pending"])
    /\ apc' = "await"
    /\ UNCHANGED <<route, req, conferences, journals, confOutcome, jourOutcome,
                   tryProviders, pidx, answer, usedProvider, lastError,
                   response, sentCount>>

\* mutant of AfterBreak: the loop goes on to the next provider after a success
AfterBreakMissing(i, n) == i + 1

\* the position of the loop after `break`
AfterBreak(i, n) == n + 1

\* mutant of UsedProviderAt: the requested provider is reported
UsedProviderRequested(tp, i) == tp[1]

\* usedProvider = p
UsedProviderAt(tp, i) == tp[i]

\* mutant of RecordError: only the first error is kept
RecordErrorFirstOnly(prev, err) == IF prev = NULL THEN err ELSE prev

\* lastError = err
RecordError(prev, err) == err

\* answer = await llmMap[p](prompt, model); usedProvider = p; break;
ProviderReturns ==
    /\ route = "agent" /\ apc = "await"
    /\ UNCHANGED nonHandlerVars
    /\ \E o \in {"text", "empty"} :
          /\ invoked' = [invoked EXCEPT ![Len(invoked)].outcome = o]
          /\ answer' = ReturnedText(tryProviders[pidx], o)
    /\ usedProvider' = UsedProviderAt(tryProviders, pidx)
    /\ pidx' = AfterBreak(pidx, Len(tryProviders))
    /\ apc' = "loop"
    /\ UNCHANGED <<route, req, conferences, journals, confOutcome, jourOutcome,
                   tryProviders, lastError, response, sentCount>>

\* catch (err) { lastError = err; console.error(...) }
ProviderThrows ==
    /\ route = "agent" /\ apc = "await"
    /\ UNCHANGED nonHandlerVars
    /\ \E o \in {"timeout", "auth"} :
          /\ invoked' = [invoked EXCEPT ![Len(invoked)].outcome = o]
          /\ lastError' = RecordError(lastError, ErrorMessage(tryProviders[pidx], o))
    /\ pidx' = pidx + 1
    /\ apc' = "loop"
    /\ UNCHANGED <<route, req, conferences, journals, confOutcome, jourOutcome,
                   tryProviders, answer, usedProvider, response, sentCount>>

\* the loop at a name that llmMap inherits: `if (!llmMap[p]) continue` lets it
\* pass. "constructor": await Object(prompt, model) returns at once, the loop
\* sets answer and usedProvider and breaks. "__proto__": the call throws a
\* TypeError inside the try, which the catch records in lastError.
LoopCallInherited ==
    /\ route = "agent" /\ apc = "loop"
    /\ UNCHANGED nonHandlerVars
    /\ pidx <= Len(tryProviders)
    /\ LlmMapEntry(tryProviders[pidx]) \in {"Object", "prototype"}
    /\ IF LlmMapEntry(tryProviders[pidx]) = "Object"
         THEN /\ invoked' = Append(invoked, [p |-> tryProviders[pidx],
                                             outcome |-> "object"])
              /\ answer' = ReturnedText(tryProviders[pidx], "object")
              /\ usedProvider' = UsedProviderAt(tryProviders, pidx)
              /\ pidx' = AfterBreak(pidx, Len(tryProviders))
              /\ UNCHANGED lastError
         ELSE /\ lastError' = RecordError(lastError, NotAFunction)
              /\ pidx' = pidx + 1
              /\ UNCHANGED <<invoked, answer, usedProvider>>
    /\ UNCHANGED <<route, apc, req, conferences, journals, confOutcome, jourOutcome,
                   tryProviders, response, sentCount>>

\* The service never answers and the connection stays open. The call* functions
\* pass no timeout to axios.post (none by default) and the loop awaits the call
\* without racing it against a timer, so the await never settles: the handler
\* stays suspended for good.
ProviderSilent ==
    /\ route = "agent" /\ apc = "await"
    /\ UNCHANGED nonHandlerVars
    /\ invoked' = [invoked EXCEPT ![Len(invoked)].outcome = "silent"]
    /\ apc' = "hung"
    /\ UNCHANGED <<route, req, conferences, journals, confOutcome, jourOutcome,
                   tryProviders, pidx, answer, usedProvider, lastError,
                   response, sentCount>>

\* model: model || process.env[`${usedProvider.toUpperCase()}_MODEL`]
ResponseModel(m, p) == IF Falsy(m) THEN "env:" \o p ELSE m

\* the message of `throw lastError || new Error("All providers failed")`
ThrownMessage(err) == IF err = NULL THEN "All providers failed" ELSE err

\* if (!answer) throw lastError || new Error("All providers failed");
\* res.json({ provider: usedProvider, model: ..., answer, retrieved: {...} });
\* } catch (e) { res.status(500).json({ error: e.message }) }
AgentRespond ==
    /\ route = "agent" /\ apc = "loop"
    /\ UNCHANGED nonHandlerVars
    /\ pidx > Len(tryProviders)
    /\ IF Falsy(answer)
         THEN response' = [status |-> 500, error |-> ThrownMessage(lastError)]
         ELSE response' = [status |-> 200,
                           provider |-> usedProvider,
                           model |-> ResponseModel(req.model, usedProvider),
                           answer |-> answer,
                           retrieved |-> [conference |-> conferences,
                                          journal |-> journals]]
    /\ sentCount' = sentCount + 1
    /\ apc' = "done"
    /\ UNCHANGED <<route, req, conferences, journals, confOutcome, jourOutcome,
                   tryProviders, pidx, answer, usedProvider, lastError, invoked>>

----------------------------------------------------------------------------
(* search.js: GET /search/all *)

\* const [journals, conferences] = await Promise.all([
\*     journalVectorSearch(q, limit), conferenceVectorSearch(q, limit) ]);
\* both calls are issued before either settles
SearchAllStart ==
    /\ route = "searchAll" /\ apc = "start"
    /\ UNCHANGED nonHandlerVars
    /\ confOutcome' = Pending
    /\ jourOutcome' = Pending
    /\ apc' = "all"
    /\ UNCHANGED <<route, req, conferences, journals, tryProviders, pidx, answer,
                   usedProvider, lastError, invoked, response, sentCount>>

\* journalVectorSearch settles (its promise is fulfilled or rejected); it is
\* not cancelled when the other one rejects
SearchAllJournalSettles ==
    /\ route = "searchAll" /\ apc \in {"all", "rejected"}
    /\ UNCHANGED nonHandlerVars
    /\ jourOutcome = Pending
    /\ \/ jourOutcome' = Threw
       \/ \E r \in JournalResults : jourOutcome' = Fulfilled(r)
    /\ apc' = IF jourOutcome' = Threw THEN "rejected" ELSE apc
    /\ UNCHANGED <<route, req, conferences, journals, confOutcome, tryProviders, pidx,
                   answer, usedProvider, lastError, invoked, response, sentCount>>

\* conferenceVectorSearch settles
SearchAllConferenceSettles ==
    /\ route = "searchAll" /\ apc \in {"all", "rejected"}
    /\ UNCHANGED nonHandlerVars
    /\ confOutcome = Pending
    /\ \/ confOutcome' = Threw
       \/ \E r \in ConferenceResults : confOutcome' = Fulfilled(r)
    /\ apc' = IF confOutcome' = Threw THEN "rejected" ELSE apc
    /\ UNCHANGED <<route, req, conferences, journals, jourOutcome, tryProviders, pidx,
                   answer, usedProvider, lastError, invoked, response, sentCount>>

\* Promise.all is fulfilled once both are: res.json({ journals, conferences }).
\* When either rejects, the await throws out of the handler, which has no
\* try/catch: res.json is never reached.
SearchAllRespond ==
    /\ route = "searchAll" /\ apc = "all"
    /\ UNCHANGED nonHandlerVars
    /\ confOutcome.kind = "ok"
    /\ jourOutcome.kind = "ok"
    /\ journals' = jourOutcome.value
    /\ conferences' = confOutcome.value
    /\ response' = [status |-> 200, journals |-> jourOutcome.value,
                    conferences |-> confOutcome.value]
    /\ sentCount' = sentCount + 1
    /\ apc' = "done"
    /\ UNCHANGED <<route, req, confOutcome, jourOutcome, tryProviders, pidx,
                   answer, usedProvider, lastError, invoked>>

\* what becomes of an async route handler whose promise rejects, by the
\* framework the build resolves "express" to: nothing is sent (the rejection
\* is left unhandled, Express 4), or the default error handler sends one 500
\* (Express 5)
RejectedHandlerOutcomes == {"unhandled", "errorHandler"}

\* the await of Promise.all throws, out of a handler with no try/catch
SearchAllRejected ==
    /\ route = "searchAll" /\ apc = "rejected"
    /\ UNCHANGED nonHandlerVars
    /\ \E o \in RejectedHandlerOutcomes :
          IF o = "unhandled"
          THEN UNCHANGED <<response, sentCount>>
          ELSE /\ response' = [status |-> 500, error |-> "Internal Server Error"]
               /\ sentCount' = sentCount + 1
    /\ apc' = "done"
    /\ UNCHANGED <<route, req, conferences, journals, confOutcome, jourOutcome,
                   tryProviders, pidx, answer, usedProvider, lastError, invoked>>


----------------------------------------------------------------------------
(* The store and the embedding model as the retrieve code sees them *)

\* String.prototype.toLowerCase, per character
LowerChar(c) ==
    CASE c = "A" -> "a"
      [] c = "B" -> "b"
      [] OTHER   -> c

Lower(s) == [i \in 1..Len(s) |-> LowerChar(s[i])]

\* String.prototype.includes
Includes(text, sub) ==
    \E i \in 0..(Len(text) - Len(sub)) : SubSeq(text, i + 1, i + Len(sub)) = sub

\* new RegExp(q, "i") over the characters the model sends: letters, " ", ".",
\* "+" and "(" (no ")" is sent, so every "(" is an unterminated group).
\* It throws a SyntaxError for an unterminated group and for a "+" with
\* nothing to repeat.
RegExpValid(q) ==
    \A i \in 1..Len(q) :
        /\ q[i] # "("
        /\ (q[i] = "+") => (i > 1 /\ q[i - 1] # "+")

\* one pattern atom against one character, case-insensitively
AtomMatches(a, c) == a = "." \/ LowerChar(a) = LowerChar(c)

\* the pattern from position i matches the text from position j
RECURSIVE MatchAt(_, _, _, _)
MatchAt(pat, i, txt, j) ==
    IF i > Len(pat) THEN TRUE
    ELSE IF i < Len(pat) /\ pat[i + 1] = "+"
      THEN \E k \in 1..(Len(txt) - j + 1) :
              /\ \A l \in j..(j + k - 1) : AtomMatches(pat[i], txt[l])
              /\ MatchAt(pat, i + 2, txt, j + k)
      ELSE /\ j <= Len(txt)
           /\ AtomMatches(pat[i], txt[j])
           /\ MatchAt(pat, i + 1, txt, j + 1)

\* regex.test(txt): an unanchored match
RegExpTest(pat, txt) == \E j \in 1..(Len(txt) + 1) : MatchAt(pat, 1, txt, j)

\* A similarity score d / sqrt(m) kept exact: d is the dot product and m the
\* product of the squared norms; nan marks NaN.
NaN == [nan |-> TRUE, d |-> 0, m |-> 1]
Score(d, m) == [nan |-> FALSE, d |-> d, m |-> m]

\* s1 < s2 for two scores that are not NaN
ScoreLess(s1, s2) ==
    IF s1.d < 0 /\ s2.d >= 0 THEN TRUE
    ELSE IF s1.d >= 0 /\ s2.d < 0 THEN FALSE
    ELSE IF s1.d >= 0 THEN s1.d * s1.d * s2.m < s2.d * s2.d * s1.m
    ELSE s1.d * s1.d * s2.m > s2.d * s2.d * s1.m

\* the sign of (a, b) => b.score - a.score; a NaN difference counts as 0
CompareDesc(a, b) ==
    IF a.score.nan \/ b.score.nan THEN 0
    ELSE IF ScoreLess(a.score, b.score) THEN 1
    ELSE IF ScoreLess(b.score, a.score) THEN -1
    ELSE 0

\* Array.prototype.sort with that comparator, as a stable insertion sort
RECURSIVE InsertPos(_, _, _)
InsertPos(sorted, x, k) ==
    IF k = 0 THEN 0
    ELSE IF CompareDesc(sorted[k], x) > 0 THEN InsertPos(sorted, x, k - 1)
    ELSE k

RECURSIVE SortByScoreDesc(_)
SortByScoreDesc(s) ==
    IF Len(s) <= 1 THEN s
    ELSE LET sorted == SortByScoreDesc(SubSeq(s, 1, Len(s) - 1))
             x == s[Len(s)]
             k == InsertPos(sorted, x, Len(sorted))
         IN SubSeq(sorted, 1, k) \o <<x>> \o SubSeq(sorted, k + 1, Len(sorted))

RECURSIVE SumTo(_, _)
SumTo(f, n) == IF n = 0 THEN 0 ELSE f[n] + SumTo(f, n - 1)

\* the similarity $vectorSearch ranks by, for vectors of one dimension
Similarity(a, b) ==
    LET dot == SumTo([i \in 1..Len(a) |-> a[i] * b[i]], Len(a))
        na == SumTo([i \in 1..Len(a) |-> a[i] * a[i]], Len(a))
        nb == SumTo([i \in 1..Len(b) |-> b[i] * b[i]], Len(b))
    IN IF na * nb = 0 THEN Score(0, 1) ELSE Score(dot, na * nb)

\* the collections
Collections == {"conference", "journal"}

\* the documents the collections can hold
ConferenceDocs ==
    << [_id |-> 1, name |-> <<"a", "b">>, vector |-> <<1, 0>>],
       [_id |-> 2, name |-> <<"B">>, topics |-> <<"a", "+", "+">>, vector |-> <<1, 1>>],
       [_id |-> 3, name |-> <<"b", "a">>] >>

JournalDocs ==
    << [_id |-> 1, title |-> <<"a">>, embedding |-> <<0, 1>>],
       [_id |-> 2, title |-> <<"b", ".">>, embedding |-> <<1, 0>>] >>

Stores ==
    { [conference |-> <<>>, journal |-> <<>>],
      [conference |-> ConferenceDocs, journal |-> JournalDocs] }

\* the vector the embedding model gives a text, a function of the text alone:
\* here the number of "a" and the number of other non-space characters
RECURSIVE CountChars(_, _)
CountChars(t, S) ==
    IF Len(t) = 0 THEN 0
    ELSE (IF Head(t) \in S THEN 1 ELSE 0) + CountChars(Tail(t), S)

EmbedOf(q) ==
    LET t == Lower(q)
    IN << CountChars(t, {"a"}), Len(t) - CountChars(t, {"a", " "}) >>

\* the retrieve calls made
Queries == {<<>>, <<" ">>, <<"a">>, <<"B">>, <<"a", "+", "+">>, <<".">>, <<"z">>}
Limits == {-1, 0, 1, 2}
EnvIndexNames == {"", "custom_index", "vector_index"}

\* the number of retrieve calls one run of the model makes
MaxCalls == 2

NoResult == [kind |-> "none", value |-> <<>>]

----------------------------------------------------------------------------
(* search.js: vectorSearch *)

\* const candidateVectorFields = ["vector", "embedding"]
candidateVectorFields == <<"vector", "embedding">>

\* cands = [envName?, `${collection}_vector_index`, "vector_index"]; [...new Set(cands)]
RECURSIVE Dedupe(_)
Dedupe(s) ==
    IF Len(s) = 0 THEN <<>>
    ELSE LET init == Dedupe(SubSeq(s, 1, Len(s) - 1))
         IN IF \E i \in 1..Len(init) : init[i] = s[Len(s)]
              THEN init ELSE Append(init, s[Len(s)])

candidateIndexNames(collection, envName) ==
    Dedupe((IF envName # "" THEN <<envName>> ELSE <<>>)
           \o <<collection \o "_vector_index", "vector_index">>)

\* const n = Math.max(1, Number(limit) || 5)
EffectiveLimit(limit) ==
    LET l == IF limit = 0 THEN 5 ELSE limit
    IN IF l < 1 THEN 1 ELSE l

\* find({}).sort({ _id: -1 }).limit(n).toArray()
RECURSIVE Reverse(_)
Reverse(s) == IF Len(s) = 0 THEN <<>> ELSE Append(Reverse(Tail(s)), Head(s))

MostRecent(docs, n) == Slice0(Reverse(docs), n)

\* pickVectorField without the cache: the first candidate field some document
\* holds as an array, "vector" when none does
ProbeVectorField(docs) ==
    IF \E i \in 1..Len(docs) : candidateVectorFields[1] \in DOMAIN docs[i]
      THEN candidateVectorFields[1]
    ELSE IF \E i \in 1..Len(docs) : candidateVectorFields[2] \in DOMAIN docs[i]
      THEN candidateVectorFields[2]
    ELSE "vector"

\* const orFields = [...]
orFields == {"title", "name", "categories", "areas", "publisher", "issn",
             "search_keywords", "topics", "acronym", "location", "country"}

\* { $or: orFields.map(f => ({ [f]: regex })) }
TextMatches(doc, q) == \E f \in (orFields \cap DOMAIN doc) : RegExpTest(q, doc[f])

\* textSearch: find(filter).limit(limit).toArray() of a valid pattern
TextSearch(docs, q, n) == Slice0(SelectSeq(docs, LAMBDA d : TextMatches(d, q)), n)

\* the fields the $project stage of tryVectorOnce keeps
projection == {"_id", "score", "title", "name", "acronym", "location", "issn",
               "publisher", "country", "categories", "areas", "rank", "sjr",
               "h_index", "deadline", "start_date", "url", "topics"}

Project(doc, score) ==
    [f \in ((DOMAIN doc \cap projection) \cup {"score"}) |->
        IF f = "score" THEN score ELSE doc[f]]

\* what $vectorSearch + $project return from an index that covers `path`:
\* the n documents nearest to qv, best first
VectorHits(docs, path, v, n) ==
    LET indexed == SelectSeq(docs, LAMBDA d : path \in DOMAIN d /\ Len(d[path]) = Len(v))
        scored == [i \in 1..Len(indexed) |->
                      Project(indexed[i], Similarity(v, indexed[i][path]))]
    IN Slice0(SortByScoreDesc(scored), n)

InitRetrieve ==
    /\ impl \in {"vectorSearch", "safeRank"}
    /\ store \in Stores
    /\ envIndex \in [Collections -> EnvIndexNames]
    /\ fieldCache = [c \in Collections |-> ""]
    /\ embedder = "unset"
    /\ callNo = 0
    /\ vpc = "idle"
    /\ vargs = [collection |-> "conference", q |-> <<>>, limit |-> 0]
    /\ qv = <<>>
    /\ embedFailed = FALSE
    /\ vpath = ""
    /\ vidx = 1
    /\ vlog = <<>>
    /\ vresult = NoResult
    /\ embedLoads = <<>>

\* a caller starts conferenceVectorSearch(q, limit) or journalVectorSearch(q, limit)
RetrieveCall ==
    /\ vpc \in {"idle", "done"}
    /\ callNo < MaxCalls
    /\ callNo' = callNo + 1
    /\ \E c \in Collections, q \in Queries, l \in Limits :
          vargs' = [collection |-> c, q |-> q, limit |-> l]
    /\ vpc' = "start"
    /\ qv' = <<>>
    /\ embedFailed' = FALSE
    /\ vpath' = ""
    /\ vidx' = 1
    /\ vlog' = <<>>
    /\ vresult' = NoResult
    /\ UNCHANGED <<impl, store, envIndex, fieldCache, embedder>>
    /\ UNCHANGED embedLoads
    /\ UNCHANGED nonRetrieveVars

\* const db = await getDb(); const n = ...;
\* if (!q?.trim()) return db.collection(collection).find({}).sort({ _id: -1 }).limit(n).toArray();
VsBegin ==
    /\ impl = "vectorSearch" /\ vpc = "start"
    /\ IF Len(Trim(vargs.q)) = 0
         THEN /\ vlog' = Append(vlog, [tier |-> "recent", name |-> "", outcome |-> "ok"])
              /\ vresult' = Fulfilled(MostRecent(store[vargs.collection],
                                                 EffectiveLimit(vargs.limit)))
              /\ vpc' = "done"
         ELSE /\ vpc' = "embed"
              /\ UNCHANGED <<vlog, vresult>>
    /\ UNCHANGED <<impl, store, envIndex, fieldCache, embedder, callNo, vargs, qv,
                   embedFailed, vpath, vidx>>
    /\ UNCHANGED embedLoads
    /\ UNCHANGED nonRetrieveVars

\* getEmbedder: if (!_embedderPromise) { _embedderPromise = pipeline(...) }
\* a load is started only while no promise is cached
LoadStartsAfterFailure(state) == state \in {"unset", "failed"}

LoadStarts(state) == state = "unset"

\* the cached promise after a use: the promise of the load this use started,
\* fulfilled or rejected, or the one that was cached
EmbedderAfterUse(state, loaded) ==
    IF LoadStarts(state) THEN (IF loaded THEN "loaded" ELSE "failed") ELSE state

\* const qv = await getQueryVector(q): getEmbedder caches the promise of the
\* model load, fulfilled or rejected; any error gives null
VsGetQueryVector ==
    /\ impl = "vectorSearch" /\ vpc = "embed"
    /\ \E loaded \in BOOLEAN, inferred \in BOOLEAN :
          /\ embedder' = EmbedderAfterUse(embedder, loaded)
          /\ embedLoads' = IF LoadStarts(embedder) THEN Append(embedLoads, callNo)
                           ELSE embedLoads
          /\ IF embedder' = "loaded" /\ inferred
               THEN /\ qv' = EmbedOf(vargs.q)
                    /\ embedFailed' = FALSE
               ELSE /\ qv' = <<>>
                    /\ embedFailed' = TRUE
    /\ vpc' = IF Len(qv') > 0 THEN "field" ELSE "text"
    /\ UNCHANGED <<impl, store, envIndex, fieldCache, callNo, vargs, vpath, vidx,
                   vlog, vresult>>
    /\ UNCHANGED nonRetrieveVars

\* const path = await pickVectorField(db, collection);
\* const indexes = candidateIndexNames(collection);
VsPickVectorField ==
    /\ impl = "vectorSearch" /\ vpc = "field"
    /\ LET c == vargs.collection
           field == IF fieldCache[c] # "" THEN fieldCache[c]
                    ELSE ProbeVectorField(store[c])
       IN /\ fieldCache' = [fieldCache EXCEPT ![c] = field]
          /\ vpath' = field
    /\ vidx' = 1
    /\ vpc' = "index"
    /\ UNCHANGED <<impl, store, envIndex, embedder, callNo, vargs, qv, embedFailed,
                   vlog, vresult>>
    /\ UNCHANGED embedLoads
    /\ UNCHANGED nonRetrieveVars

\* mutant of IndexResultWins: an empty result is returned too
IndexResultWinsAlways(rs) == TRUE

\* if (rs.length) return rs;
IndexResultWins(rs) == Len(rs) > 0

\* for (const idx of indexes) { try { const rs = await tryVectorOnce(...);
\*   if (rs.length) return rs; } catch (e) { /* try next index */ } }
\* The aggregate throws (no such index), or returns nothing (an index that
\* holds no document), or returns the nearest documents.
VsTryIndex ==
    /\ impl = "vectorSearch" /\ vpc = "index"
    /\ LET indexes == candidateIndexNames(vargs.collection, envIndex[vargs.collection])
           hits == VectorHits(store[vargs.collection], vpath, qv,
                              EffectiveLimit(vargs.limit))
       IN /\ vidx <= Len(indexes)
          /\ \/ /\ vlog' = Append(vlog, [tier |-> "index", name |-> indexes[vidx],
                                         outcome |-> "error"])
                /\ vidx' = vidx + 1
                /\ UNCHANGED <<vpc, vresult>>
             \/ \E rs \in {<<>>, hits} :
                   /\ vlog' = Append(vlog, [tier |-> "index", name |-> indexes[vidx],
                                            outcome |-> IF Len(rs) > 0 THEN "hits"
                                                        ELSE "empty"])
                   /\ IF IndexResultWins(rs)
                        THEN /\ vresult' = Fulfilled(rs)
                             /\ vpc' = "done"
                             /\ UNCHANGED vidx
                        ELSE /\ vidx' = vidx + 1
                             /\ UNCHANGED <<vpc, vresult>>
    /\ UNCHANGED <<impl, store, envIndex, fieldCache, embedder, callNo, vargs, qv,
                   embedFailed, vpath>>
    /\ UNCHANGED embedLoads
    /\ UNCHANGED nonRetrieveVars

\* return textSearch(db, collection, q, n): new RegExp(q, "i") throws for an
\* invalid pattern and the call is rejected
VsTextSearch ==
    /\ impl = "vectorSearch"
    /\ \/ vpc = "text"
       \/ /\ vpc = "index"
          /\ vidx > Len(candidateIndexNames(vargs.collection,
                                            envIndex[vargs.collection]))
    /\ IF RegExpValid(vargs.q)
         THEN /\ vlog' = Append(vlog, [tier |-> "text", name |-> "", outcome |-> "ok"])
              /\ vresult' = Fulfilled(TextSearch(store[vargs.collection], vargs.q,
                                                 EffectiveLimit(vargs.limit)))
         ELSE /\ vlog' = Append(vlog, [tier |-> "text", name |-> "", outcome |-> "threw"])
              /\ vresult' = Threw
    /\ vpc' = "done"
    /\ UNCHANGED <<impl, store, envIndex, fieldCache, embedder, callNo, vargs, qv,
                   embedFailed, vpath, vidx>>
    /\ UNCHANGED embedLoads
    /\ UNCHANGED nonRetrieveVars

\* the collections are filled between two calls (an ingestion by another
\* process): documents carrying a vector field appear in an empty store.
\* FIELD_CACHE is a module-level Map and pickVectorField never deletes from it.
StoreLoaded ==
    /\ vpc \in {"idle", "done"}
    /\ store = [conference |-> <<>>, journal |-> <<>>]
    /\ store' = [conference |-> ConferenceDocs, journal |-> JournalDocs]
    /\ UNCHANGED <<impl, envIndex, fieldCache, embedder, callNo, vpc, vargs, qv,
                   embedFailed, vpath, vidx, vlog, vresult>>
    /\ UNCHANGED embedLoads
    /\ UNCHANGED nonRetrieveVars

----------------------------------------------------------------------------
(* search.js, the in-memory ranking: conferenceVectorSearch / safeRank *)

\* function cosine(a, b): the loop runs over a; b[i] beyond b's length is
\* undefined and makes every sum NaN; a zero norm gives 0 / 0
Cosine(a, b) ==
    IF Len(a) > Len(b) THEN NaN
    ELSE LET dot == SumTo([i \in 1..Len(a) |-> a[i] * b[i]], Len(a))
             na == SumTo([i \in 1..Len(a) |-> a[i] * a[i]], Len(a))
             nb == SumTo([i \in 1..Len(a) |-> b[i] * b[i]], Len(a))
         IN IF na * nb = 0 THEN NaN ELSE Score(dot, na * nb)

\* `${it.f}` of a field the document lacks
UndefinedText == <<"u", "n", "d", "e", "f", "i", "n", "e", "d">>

FieldText(doc, f) == IF f \in DOMAIN doc THEN doc[f] ELSE UndefinedText

\* it => `${it.name} ${it.location} ${it.topics}` and
\* it => `${it.title} ${it.areas} ${it.categories}`
fieldExtractor(collection, doc) ==
    IF collection = "conference"
      THEN FieldText(doc, "name") \o <<" ">> \o FieldText(doc, "location")
           \o <<" ">> \o FieldText(doc, "topics")
      ELSE FieldText(doc, "title") \o <<" ">> \o FieldText(doc, "areas")
           \o <<" ">> \o FieldText(doc, "categories")

WithScore(doc, score) ==
    [f \in (DOMAIN doc \cup {"score"}) |-> IF f = "score" THEN score ELSE doc[f]]

\* function fallbackRank(items, question, fieldExtractor)
fallbackRank(items, question, collection) ==
    SortByScoreDesc(
        [i \in 1..Len(items) |->
            WithScore(items[i],
                      IF Includes(Lower(fieldExtractor(collection, items[i])),
                                  Lower(question))
                        THEN Score(1, 1) ELSE Score(0, 1))])

\* how embedText(question) ends: it returns the remote embedding, or the local
\* one, or [] when the local model fails too. Every error is caught inside
\* embedText, so it never throws.
EmbedTextOutcomes == {"remote", "local", "none"}

\* the remote embedding has another dimension than the local one
RemoteEmbedOf(q) == EmbedOf(q) \o <<1>>

\* async function safeRank(items, question, fieldExtractor)
safeRank(items, question, collection, embedThrew, qVec) ==
    IF embedThrew
      THEN fallbackRank(items, question, collection)
      ELSE SortByScoreDesc(
               [i \in 1..Len(items) |->
                   WithScore(items[i],
                             IF "vector" \in DOMAIN items[i]
                               THEN Cosine(qVec, items[i].vector)
                               ELSE Score(0, 1))])

\* Array.prototype.slice(0, k) for any integer k
SliceJs(s, k) ==
    IF k >= 0 THEN Slice0(s, k)
    ELSE Slice0(s, IF Len(s) + k > 0 THEN Len(s) + k ELSE 0)

\* const db = await getDb(); const confs = await db.collection(c).find().toArray();
SrFind ==
    /\ impl = "safeRank" /\ vpc = "start"
    /\ vlog' = Append(vlog, [tier |-> "find", name |-> "", outcome |-> "ok"])
    /\ vpc' = "embed"
    /\ UNCHANGED <<impl, store, envIndex, fieldCache, embedder, callNo, vargs, qv,
                   embedFailed, vpath, vidx, vresult>>
    /\ UNCHANGED embedLoads
    /\ UNCHANGED nonRetrieveVars

\* const qVec = await embedText(question);
SrEmbedText ==
    /\ impl = "safeRank" /\ vpc = "embed"
    /\ \E o \in EmbedTextOutcomes :
          /\ qv' = CASE o = "remote" -> RemoteEmbedOf(vargs.q)
                     [] o = "local"  -> EmbedOf(vargs.q)
                     [] o = "none"   -> <<>>
          /\ embedFailed' = (o = "none")
          /\ embedder' = IF o = "remote" \/ embedder # "unset" THEN embedder
                         ELSE IF o = "local" THEN "loaded" ELSE "failed"
          /\ embedLoads' = IF o # "remote" /\ embedder = "unset"
                             THEN Append(embedLoads, callNo) ELSE embedLoads
          /\ (o = "local") => embedder # "failed"
    /\ vpc' = "rank"
    /\ UNCHANGED <<impl, store, envIndex, fieldCache, callNo, vargs, vpath, vidx,
                   vlog, vresult>>
    /\ UNCHANGED nonRetrieveVars

\* const ranked = await safeRank(confs, question, ...); return ranked.slice(0, topk);
SrRank ==
    /\ impl = "safeRank" /\ vpc = "rank"
    /\ vlog' = Append(vlog, [tier |-> "similarity", name |-> "", outcome |-> "ok"])
    /\ vresult' = Fulfilled(SliceJs(safeRank(store[vargs.collection], vargs.q,
                                            vargs.collection, FALSE, qv),
                                   vargs.limit))
    /\ vpc' = "done"
    /\ UNCHANGED <<impl, store, envIndex, fieldCache, embedder, callNo, vargs, qv,
                   embedFailed, vpath, vidx>>
    /\ UNCHANGED embedLoads
    /\ UNCHANGED nonRetrieveVars

----------------------------------------------------------------------------
(* Ingestion: import.js (runImport, importCollection, embedBatch), its two  *)
(* triggers in app.js, and the ingestion script with its source fetch       *)

\* the chunk of the embedding loop (const BATCH_SIZE: 32 in import.js, 25 in
\* the script), scaled down so that a collection takes more than one chunk
BATCH_SIZE == 2

\* the worker limit of the upserts (pLimit(10)), scaled down so that a
\* collection has more upserts than workers
POOL_LIMIT == 2

\* fetchJsonStream(url, retries = 3)
retries == 3

\* the number of ingestion runs one behaviour starts
MaxRuns == 2

RunIds == 1..MaxRuns

\* item[f], "" for a field the record does not have (val || "")
Field(item, f) == IF f \in DOMAIN item THEN item[f] ELSE <<>>

\* fields.map(f => item[f] || "").filter(Boolean).join(" ")
RECURSIVE JoinFields(_, _)
JoinFields(item, fields) ==
    IF fields = <<>> THEN <<>>
    ELSE LET val == Field(item, Head(fields))
             rest == JoinFields(item, Tail(fields))
         IN IF val = <<>> THEN rest
            ELSE IF rest = <<>> THEN val
            ELSE val \o <<" ">> \o rest

\* records.map(item => ...): the embedding input of every record
Contents(records, fields) == [i \in 1..Len(records) |-> JoinFields(records[i], fields)]

\* the collections of one run, in the order the program imports them, and the
\* field list of each
ImportOrder(prog) ==
    IF prog = "import.js" THEN <<"journal", "conference">>
    ELSE <<"conference", "journal">>

ImportFields(prog, name) ==
    IF prog = "import.js"
    THEN (IF name = "journal" THEN <<"title", "publisher", "categories", "areas">>
          ELSE <<"name", "acronym", "location", "topics">>)
    ELSE <<"_key", "publisher", "description">>

\* conferences.map(c => ({...c, _key: `${c.acronym || ""} ${c.name || ""}`.trim()}))
\* journals.map(j => ({...j, _key: j.title || ""}))
WithKey(name, rec) ==
    LET key == IF name = "conference"
               THEN Trim(Field(rec, "acronym") \o <<" ">> \o Field(rec, "name"))
               ELSE Field(rec, "title")
    IN [f \in DOMAIN rec \cup {"_key"} |-> IF f = "_key" THEN key ELSE rec[f]]

\* the records a run hands to importCollection
RecordsOf(prog, name, data) ==
    IF prog = "import.js" THEN data[name]
    ELSE [i \in 1..Len(data[name]) |-> WithKey(name, data[name][i])]

\* a vector written as undefined is stored as null
NullVector == <<"null">>

RECURSIVE Flat(_)
Flat(vs) == IF vs = <<>> THEN <<>> ELSE Head(vs) \o Flat(Tail(vs))

\* embedBatch(texts): one vector per text when the pipeline returns a list (and
\* in the script, which indexes the result by text); one flattened vector for
\* the whole batch when it returns a single tensor ([outputs].map(flattenEmbedding))
embedBatch(prog, shape, texts) ==
    LET each == [i \in 1..Len(texts) |-> EmbedOf(texts[i])]
    IN IF prog = "import.js" /\ shape = "tensor" THEN << Flat(each) >> ELSE each

\* vectors[idx]
VectorAt(vectors, idx) == IF idx <= Len(vectors) THEN vectors[idx] ELSE NullVector

\* the field of the upsert filter: fields[0]
KeyField(prog, name) == Head(ImportFields(prog, name))

\* the first document the filter { [key]: value } matches, 0 when there is none
RECURSIVE FirstMatch(_, _, _, _)
FirstMatch(docs, f, value, from) ==
    IF from > Len(docs) THEN 0
    ELSE IF f \in DOMAIN docs[from] /\ docs[from][f] = value THEN from
    ELSE FirstMatch(docs, f, value, from + 1)

\* { $set: { ...item, vector } } on a document
SetFields(doc, item, vector) ==
    [f \in DOMAIN doc \cup DOMAIN item \cup {"vector"} |->
        IF f = "vector" THEN vector
        ELSE IF f \in DOMAIN item THEN item[f]
        ELSE doc[f]]

\* the write of updateOne(filter, update, {upsert: true}): the update of the
\* matched document, or the insert of a new one when none was matched
UpdateOneWrite(docs, hit, item, vector) ==
    IF hit > 0 THEN [docs EXCEPT ![hit] = SetFields(docs[hit], item, vector)]
    ELSE Append(docs, SetFields([_id |-> Len(docs) + 1], item, vector))

\* find({vector: {$exists: true}}, {projection: {_key: 1}}) as a set of keys
existingKeys(docs) ==
    { docs[i]._key : i \in {j \in 1..Len(docs) : {"vector", "_key"} \subseteq DOMAIN docs[j]} }

\* records.filter(r => !existingKeys.has(r._key))
newRecords(records, keys) == SelectSeq(records, LAMBDA r : r._key \notin keys)

\* the source records
JournalA == [title |-> <<"a">>, publisher |-> <<"b">>]
JournalA2 == [title |-> <<"a">>, publisher |-> <<"a">>]
ConfX == [name |-> <<"a">>, acronym |-> <<"b">>, location |-> <<"x">>]
ConfY == [name |-> <<"a">>, acronym |-> <<"b">>, location |-> <<"a">>]
ConfZ == [name |-> <<"b">>, acronym |-> <<>>, location |-> <<"a">>]

\* what the source can hold: nothing; one record of each type; a later state
\* in which the journal changed its publisher and the conference list holds
\* two records of the same name and acronym
EmptyData == [conference |-> <<>>, journal |-> <<>>]

DataSets ==
    { EmptyData,
      [conference |-> <<ConfX>>, journal |-> <<JournalA>>],
      [conference |-> <<ConfX, ConfY, ConfZ>>, journal |-> <<JournalA2>>] }

\* the store before the first run: empty, or with a conference that was
\* created without a vector
InitialStores ==
    { [conference |-> <<>>, journal |-> <<>>],
      [conference |-> << [_id |-> 1, name |-> <<"b">>, acronym |-> <<>>] >>,
       journal |-> <<>>] }

OutputShapes == {"array", "tensor"}

\* the local state of a run that was not started
IdleRun ==
    [ pc |-> "idle", prog |-> "", trig |-> "", data |-> EmptyData, step |-> 1,
      attempt |-> 1, records |-> <<>>, contents |-> <<>>, vectors |-> <<>>,
      i |-> 0, ops |-> <<>>,
      \* history: the store when the run started, the records each
      \* importCollection of the run went on to embed and upsert
      seen |-> [conference |-> <<>>, journal |-> <<>>],
      news |-> [conference |-> <<>>, journal |-> <<>>],
      \* history: what the run's latest fetchJsonStream call did, in order:
      \* "fail" and "ok" for the attempts, "wait" for the 5 s timer, "throw"
      fetchLog |-> <<>> ]

InFlight(run) == run.pc \notin {"idle", "done", "failed"}

HasFreeRun == \E r \in RunIds : runs[r].pc = "idle"
FreeRun == CHOOSE r \in RunIds : runs[r].pc = "idle" /\ \A q \in 1..(r - 1) : runs[q].pc # "idle"

\* the collection a run is importing
NameOf(run) == ImportOrder(run.prog)[run.step]

InitIngest ==
    /\ sourceData \in DataSets
    /\ outputs \in OutputShapes
    /\ booted = FALSE
    /\ runs = [r \in RunIds |-> IdleRun]

\* a call of runImport(): up to the await of getDb()
StartRunImport(trig) ==
    /\ HasFreeRun
    /\ runs' = [runs EXCEPT ![FreeRun] =
                   [IdleRun EXCEPT !.pc = "getDb", !.prog = "import.js",
                                   !.trig = trig, !.seen = store]]

\* app.listen(PORT, async () => { await runImport() })
Boot ==
    /\ ~booted
    /\ booted' = TRUE
    /\ StartRunImport("boot")
    /\ UNCHANGED <<store, sourceData, outputs>>
    /\ UNCHANGED nonIngestVars

\* cron.schedule(CRON_SCHEDULE, async () => { await runImport() })
CronTick ==
    /\ booted
    /\ StartRunImport("cron")
    /\ UNCHANGED <<store, sourceData, outputs, booted>>
    /\ UNCHANGED nonIngestVars

\* the source is edited between or during runs (as long as a run is still to
\* read it: a later edit is seen by nothing)
DataChanges ==
    /\ \E r \in RunIds : runs[r].pc \in {"idle", "getDb", "fetch"}
    /\ \E d \in DataSets \ {sourceData} : sourceData' = d
    /\ UNCHANGED <<store, outputs, booted, runs>>
    /\ UNCHANGED nonIngestVars

\* runImport: const data = JSON.parse(fs.readFileSync("./data.json"))
RunImportReadData ==
    /\ \E r \in RunIds :
          /\ runs[r].pc = "getDb"
          /\ runs' = [runs EXCEPT ![r].pc = "collection", ![r].step = 1,
                                  ![r].data = sourceData]
    /\ UNCHANGED <<store, sourceData, outputs, booted>>
    /\ UNCHANGED nonIngestVars

\* the run after an importCollection returned: the next collection, or the end
AfterCollection(run) ==
    IF run.step = 2 THEN [run EXCEPT !.pc = "done"]
    ELSE [run EXCEPT !.pc = "collection", !.step = 2]

\* importCollection up to the embedding loop: the early return on no records,
\* in the script the existingKeys filter and the early return on no new record
ImportCollectionBegin ==
    /\ \E r \in RunIds :
          /\ runs[r].pc = "collection"
          /\ LET run == runs[r]
                 name == NameOf(run)
                 fields == ImportFields(run.prog, name)
                 all == RecordsOf(run.prog, name, run.data)
                 recs == IF run.prog = "import.js" THEN all
                         ELSE newRecords(all, existingKeys(store[name]))
             IN runs' = [runs EXCEPT ![r] =
                    IF Len(recs) = 0 THEN AfterCollection(run)
                    ELSE [run EXCEPT !.pc = "embed", !.records = recs,
                                     !.contents = Contents(recs, fields),
                                     !.vectors = <<>>, !.i = 0, !.ops = <<>>,
                                     !.news[name] = recs]]
    /\ UNCHANGED <<store, sourceData, outputs, booted>>
    /\ UNCHANGED nonIngestVars

Min(a, b) == IF a < b THEN a ELSE b

\* an upsert the limiter holds: its state, the document its filter matched,
\* and (history) the number of updateOne calls made for it
QueuedOp == [st |-> "queued", hit |-> 0, n |-> 0]

\* for (let i = 0; i < contents.length; i += BATCH_SIZE): the chunk at i is
\* the last one
LastChunkAlways(i, n) == TRUE

LastChunk(i, n) == i + BATCH_SIZE >= n

\* one turn of the embedding loop: the chunk is embedded and its vectors
\* appended, or embedBatch throws and the run ends; after the last chunk
\* every record's upsert is queued on the limiter
EmbedBatch ==
    /\ \E r \in RunIds, ok \in BOOLEAN :
          /\ runs[r].pc = "embed"
          /\ LET run == runs[r]
                 n == Len(run.contents)
                 batch == SubSeq(run.contents, run.i + 1, Min(run.i + BATCH_SIZE, n))
                 vecs == embedBatch(run.prog, outputs, batch)
             IN runs' = [runs EXCEPT ![r] =
                    IF ~ok THEN [run EXCEPT !.pc = "failed"]
                    ELSE IF ~LastChunk(run.i, n)
                    THEN [run EXCEPT !.vectors = @ \o vecs, !.i = @ + BATCH_SIZE]
                    ELSE [run EXCEPT !.vectors = @ \o vecs, !.i = @ + BATCH_SIZE,
                                     !.pc = "upsert",
                                     !.ops = [k \in 1..n |-> QueuedOp]]]
    /\ UNCHANGED <<store, sourceData, outputs, booted>>
    /\ UNCHANGED nonIngestVars

\* the upserts of a run the limiter has started and that have not ended
ActiveOps(run) == {k \in DOMAIN run.ops : run.ops[k].st \in {"sent", "matched"}}

\* pLimit(10): a queued function is started while fewer than the limit run
LimiterHasRoomAlways(run) == TRUE

LimiterHasRoom(run) == Cardinality(ActiveOps(run)) < POOL_LIMIT

\* the limiter of the run still has upserts to start or to see end: during
\* await Promise.all(...), and after Promise.all rejected on a failed upsert,
\* which ends importCollection and the run but not the limiter's queue
Upserting(run) ==
    \/ run.pc = "upsert"
    \/ /\ run.pc = "failed"
       /\ \E k \in DOMAIN run.ops : run.ops[k].st \notin {"done", "failed"}

\* limit(() => updateOne(...)): the limiter starts the next queued upsert, in
\* the order of the records, while fewer than its limit are running
UpsertSend ==
    /\ \E r \in RunIds :
          /\ Upserting(runs[r])
          /\ LimiterHasRoom(runs[r])
          /\ \E k \in DOMAIN runs[r].ops :
                /\ runs[r].ops[k].st = "queued"
                /\ \A j \in 1..(k - 1) : runs[r].ops[j].st # "queued"
                /\ runs' = [runs EXCEPT ![r].ops[k].st = "sent",
                                        ![r].ops[k].n = @ + 1]
    /\ UNCHANGED <<store, sourceData, outputs, booted>>
    /\ UNCHANGED nonIngestVars

\* updateOne({[key]: item[key]}, ..., {upsert: true}) at the store, first
\* half: the filter is evaluated. No unique index covers the filter field, so
\* the store does not serialise upserts of one key.
UpsertMatch ==
    /\ \E r \in RunIds :
          /\ Upserting(runs[r])
          /\ \E k \in DOMAIN runs[r].ops :
                /\ runs[r].ops[k].st = "sent"
                /\ LET run == runs[r]
                       f == KeyField(run.prog, NameOf(run))
                       hit == FirstMatch(store[NameOf(run)], f,
                                         Field(run.records[k], f), 1)
                   IN runs' = [runs EXCEPT ![r].ops[k].st = "matched",
                                           ![r].ops[k].hit = hit]
    /\ UNCHANGED <<store, sourceData, outputs, booted>>
    /\ UNCHANGED nonIngestVars

\* updateOne, second half: { $set: { ...item, vector: vectors[idx] } } on the
\* matched document, or the insert of a new document
UpsertApply ==
    /\ \E r \in RunIds :
          /\ Upserting(runs[r])
          /\ \E k \in DOMAIN runs[r].ops :
                /\ runs[r].ops[k].st = "matched"
                /\ LET run == runs[r]
                       name == NameOf(run)
                   IN store' = [store EXCEPT ![name] =
                          UpdateOneWrite(@, run.ops[k].hit, run.records[k],
                                         VectorAt(run.vectors, k))]
                /\ runs' = [runs EXCEPT ![r].ops[k].st = "done"]
    /\ UNCHANGED <<sourceData, outputs, booted>>
    /\ UNCHANGED nonIngestVars

\* an updateOne the limiter started rejects (the store or the connection
\* fails; a write on a client that main has closed). Promise.all rejects at
\* the first rejection: importCollection throws and the run ends, in the
\* script through catch and finally { await client.close() }. The limiter is
\* not told: the upserts that run go on and the queued ones are still started.
UpsertFail ==
    /\ \E r \in RunIds :
          /\ Upserting(runs[r])
          /\ \E k \in DOMAIN runs[r].ops :
                /\ runs[r].ops[k].st = "sent"
                /\ runs' = [runs EXCEPT ![r].ops[k].st = "failed",
                                        ![r].pc = "failed"]
    /\ UNCHANGED <<store, sourceData, outputs, booted>>
    /\ UNCHANGED nonIngestVars

\* await Promise.all(...) resolves: importCollection returns
ImportCollectionEnd ==
    /\ \E r \in RunIds :
          /\ runs[r].pc = "upsert"
          /\ \A k \in DOMAIN runs[r].ops : runs[r].ops[k].st = "done"
          /\ runs' = [runs EXCEPT ![r] = AfterCollection(runs[r])]
    /\ UNCHANGED <<store, sourceData, outputs, booted>>
    /\ UNCHANGED nonIngestVars

\* the script is run: await client.connect(), which can fail. The script is
\* one process, started again only after the last one ended, its limiter's
\* queue included.
ScriptStart ==
    /\ HasFreeRun
    /\ \A r \in RunIds : ~InFlight(runs[r]) /\ ~Upserting(runs[r])
    /\ \E ok \in BOOLEAN :
          runs' = [runs EXCEPT ![FreeRun] =
                      [IdleRun EXCEPT !.pc = IF ok THEN "fetch" ELSE "failed",
                                      !.prog = "script", !.trig = "cli",
                                      !.seen = store]]
    /\ UNCHANGED <<store, sourceData, outputs, booted>>
    /\ UNCHANGED nonIngestVars

\* the catch block of fetchJsonStream after a failed attempt:
\* if (attempt < retries) await the 5 s timer, else throw err
AfterFailedAttemptNeverThrows(attempt) == "wait"

AfterFailedAttempt(attempt) == IF attempt < retries THEN "wait" ELSE "throw"

\* one attempt of fetchJsonStream: the parsed body of the source, or an error
\* (of the request, of the stream or of JSON.parse) that is retried after the
\* timer until the attempts are used up and then thrown; a loop that ran out
\* would return undefined, on which main fails. The conferences are fetched
\* first, then the journals.
ScriptFetch ==
    /\ \E r \in RunIds, ok \in BOOLEAN :
          /\ runs[r].pc = "fetch"
          /\ LET run == runs[r]
                 name == ImportOrder("script")[run.step]
                 log == IF run.attempt = 1 THEN <<>> ELSE run.fetchLog
                 after == AfterFailedAttempt(run.attempt)
                 failLog == Append(Append(log, "fail"), after)
             IN runs' = [runs EXCEPT ![r] =
                    IF ok
                    THEN (IF run.step = 1
                          THEN [run EXCEPT !.data[name] = sourceData[name],
                                           !.step = 2, !.attempt = 1,
                                           !.fetchLog = Append(log, "ok")]
                          ELSE [run EXCEPT !.data[name] = sourceData[name],
                                           !.step = 1, !.attempt = 1,
                                           !.pc = "collection",
                                           !.fetchLog = Append(log, "ok")])
                    ELSE IF after = "wait" /\ run.attempt + 1 <= retries
                    THEN [run EXCEPT !.attempt = @ + 1, !.fetchLog = failLog]
                    ELSE [run EXCEPT !.pc = "failed", !.fetchLog = failLog]]
    /\ UNCHANGED <<store, sourceData, outputs, booted>>
    /\ UNCHANGED nonIngestVars

----------------------------------------------------------------------------
(* The process-wide singletons: getDb (search.js, db.js, import.js) and the  *)
(* embedding pipeline (getEmbedder of search.js; initEmbedding / embed)      *)

\* the number of concurrent first uses one behaviour makes
MaxCallers == 3

Callers == 1..MaxCallers

\* which code guards the embedding pipeline: getEmbedder caches the promise of
\* pipeline(...), initEmbedding caches the pipeline once the promise resolved
EmbedderGuards == {"getEmbedder", "initEmbedding"}

\* a caller that has not called yet
NewCaller(target) == [target |-> target, pc |-> "call", mine |-> 0, got |-> 0]

InitSingletons ==
    /\ gclient = 0
    /\ gdb = 0
    /\ made = 0
    /\ connected = {}
    /\ embGuard \in EmbedderGuards
    /\ embCache = 0
    /\ loads = 0
    /\ pipesLoaded = {}
    /\ callers \in [Callers -> {NewCaller("getDb"), NewCaller("embedder")}]

\* getDb up to its await: return _db when it is set; otherwise
\* _client = new MongoClient(MONGODB_URI) and _client.connect() is awaited
GetDbCall ==
    /\ \E c \in Callers :
          /\ callers[c].target = "getDb" /\ callers[c].pc = "call"
          /\ IF gdb # 0
               THEN /\ callers' = [callers EXCEPT ![c].pc = "done", ![c].got = gdb]
                    /\ UNCHANGED <<gclient, made>>
               ELSE /\ made' = made + 1
                    /\ gclient' = made + 1
                    /\ callers' = [callers EXCEPT ![c].pc = "connect",
                                                  ![c].mine = made + 1]
    /\ UNCHANGED <<gdb, connected, embGuard, embCache, loads, pipesLoaded>>
    /\ UNCHANGED nonSingletonVars

\* the connect of the caller's client ends. On success
\* _db = _client.db(MONGODB_DB) takes the client _client names now, and _db is
\* returned; on failure getDb throws.
GetDbConnect ==
    /\ \E c \in Callers, ok \in BOOLEAN :
          /\ callers[c].pc = "connect"
          /\ IF ok
               THEN /\ connected' = connected \cup {callers[c].mine}
                    /\ gdb' = gclient
                    /\ callers' = [callers EXCEPT ![c].pc = "done", ![c].got = gclient]
               ELSE /\ callers' = [callers EXCEPT ![c].pc = "failed"]
                    /\ UNCHANGED <<gdb, connected>>
    /\ UNCHANGED <<gclient, made, embGuard, embCache, loads, pipesLoaded>>
    /\ UNCHANGED nonSingletonVars

\* a first use of the embedder, up to its await.
\* getEmbedder: if (!_embedderPromise) _embedderPromise = pipeline(...);
\*              return _embedderPromise
\* embed / initEmbedding: if (!embedder) { embedder = await pipeline(...) }
EmbedderCall ==
    /\ \E c \in Callers :
          /\ callers[c].target = "embedder" /\ callers[c].pc = "call"
          /\ IF embCache # 0
               THEN /\ callers' = [callers EXCEPT
                          ![c] = IF embGuard = "getEmbedder"
                                   THEN [@ EXCEPT !.pc = "await", !.mine = embCache]
                                   ELSE [@ EXCEPT !.pc = "done", !.got = embCache]]
                    /\ UNCHANGED <<embCache, loads>>
               ELSE /\ loads' = loads + 1
                    /\ embCache' = IF embGuard = "getEmbedder" THEN loads + 1 ELSE embCache
                    /\ callers' = [callers EXCEPT ![c].pc = "await",
                                                  ![c].mine = loads + 1]
    /\ UNCHANGED <<gclient, gdb, made, connected, embGuard, pipesLoaded>>
    /\ UNCHANGED nonSingletonVars

\* a pipeline(...) promise is fulfilled: the model is loaded
PipelineLoaded ==
    /\ \E id \in (1..loads) \ pipesLoaded : pipesLoaded' = pipesLoaded \cup {id}
    /\ UNCHANGED <<gclient, gdb, made, connected, embGuard, embCache, loads, callers>>
    /\ UNCHANGED nonSingletonVars

\* the caller resumes with the pipeline it awaited; initEmbedding stores it in
\* `embedder` only now, and embed goes on with what `embedder` holds
EmbedderResume ==
    /\ \E c \in Callers :
          /\ callers[c].pc = "await"
          /\ callers[c].mine \in pipesLoaded
          /\ embCache' = IF embGuard = "initEmbedding" THEN callers[c].mine ELSE embCache
          /\ callers' = [callers EXCEPT ![c].pc = "done", ![c].got = embCache']
    /\ UNCHANGED <<gclient, gdb, made, connected, embGuard, loads, pipesLoaded>>
    /\ UNCHANGED nonSingletonVars

----------------------------------------------------------------------------

\* the handlers at rest
IdleAgent ==
    /\ route = "agent"
    /\ apc = "done"
    /\ req = [question |-> <<>>, provider |-> NULL, model |-> NULL, topk |-> 5]
    /\ conferences = <<>>
    /\ journals = <<>>
    /\ confOutcome = NotCalled
    /\ jourOutcome = NotCalled
    /\ tryProviders = <<>>
    /\ pidx = 1
    /\ answer = NULL
    /\ usedProvider = NULL
    /\ lastError = NULL
    /\ invoked = <<>>
    /\ response = NoResponse
    /\ sentCount = 0

\* no retrieve call is made
IdleRetrieveCalls ==
    /\ impl = "vectorSearch"
    /\ envIndex = [c \in Collections |-> ""]
    /\ fieldCache = [c \in Collections |-> ""]
    /\ embedder = "unset"
    /\ callNo = MaxCalls
    /\ vpc = "idle"
    /\ vargs = [collection |-> "conference", q |-> <<>>, limit |-> 0]
    /\ qv = <<>>
    /\ embedFailed = FALSE
    /\ vpath = ""
    /\ vidx = 1
    /\ vlog = <<>>
    /\ vresult = NoResult
    /\ embedLoads = <<>>

IdleRetrieve ==
    /\ store = [conference |-> <<>>, journal |-> <<>>]
    /\ IdleRetrieveCalls

\* no ingestion runs
IdleIngest ==
    /\ sourceData = EmptyData
    /\ outputs = "array"
    /\ booted = TRUE
    /\ runs = [r \in RunIds |-> IdleRun]

\* no caller of the singletons
IdleSingletons ==
    /\ gclient = 0
    /\ gdb = 0
    /\ made = 0
    /\ connected = {}
    /\ embGuard = "getEmbedder"
    /\ embCache = 0
    /\ loads = 0
    /\ pipesLoaded = {}
    /\ callers = [c \in Callers |-> [NewCaller("getDb") EXCEPT !.pc = "done"]]

Init == InitAgent /\ IdleRetrieve /\ IdleIngest /\ IdleSingletons

Next ==
    \/ AgentValidate
    \/ AgentConferenceSearch
    \/ AgentJournalSearch
    \/ AgentFallbackAndPrompt
    \/ LoopSkipUnknown
    \/ LoopInvoke
    \/ ProviderReturns
    \/ ProviderThrows
    \/ AgentRespond
    \/ SearchAllStart
    \/ SearchAllJournalSettles
    \/ SearchAllConferenceSettles
    \/ SearchAllRespond
    \/ SearchAllRejected
    \/ ProviderSilent
    \/ LoopCallInherited

Spec == Init /\ [][Next]_vars

\* the handlers under fairness: a handler that can take a step takes one (the
\* event loop runs every continuation that is ready, and a service that is
\* going to answer or to fail does so)
SpecLive == Init /\ [][Next]_vars /\ WF_vars(Next)

InitR == IdleAgent /\ InitRetrieve /\ IdleIngest /\ IdleSingletons

NextR ==
    \/ RetrieveCall
    \/ VsBegin
    \/ VsGetQueryVector
    \/ VsPickVectorField
    \/ VsTryIndex
    \/ VsTextSearch
    \/ SrFind
    \/ SrEmbedText
    \/ SrRank

SpecRetrieve == InitR /\ [][NextR]_vars

\* the retrieve calls over a store that is filled while the process runs
NextRL ==
    \/ RetrieveCall
    \/ VsBegin
    \/ VsGetQueryVector
    \/ VsPickVectorField
    \/ VsTryIndex
    \/ VsTextSearch
    \/ SrFind
    \/ SrEmbedText
    \/ SrRank
    \/ StoreLoaded

SpecRetrieveLoaded == InitR /\ [][NextRL]_vars

\* import.js inside the server: the boot run and the scheduled runs
InitI ==
    /\ IdleAgent
    /\ IdleRetrieveCalls
    /\ store \in InitialStores
    /\ InitIngest
    /\ IdleSingletons

NextI ==
    \/ Boot
    \/ CronTick
    \/ DataChanges
    \/ RunImportReadData
    \/ ImportCollectionBegin
    \/ EmbedBatch
    \/ UpsertSend
    \/ UpsertMatch
    \/ UpsertApply
    \/ ImportCollectionEnd

SpecImport == InitI /\ [][NextI]_vars

\* the ingestion script, run from the command line
InitS ==
    /\ IdleAgent
    /\ IdleRetrieveCalls
    /\ store \in InitialStores
    /\ sourceData \in DataSets
    /\ outputs = "array"
    /\ booted = FALSE
    /\ runs = [r \in RunIds |-> IdleRun]
    /\ IdleSingletons

NextS ==
    \/ ScriptStart
    \/ ScriptFetch
    \/ DataChanges
    \/ ImportCollectionBegin
    \/ EmbedBatch
    \/ UpsertSend
    \/ UpsertMatch
    \/ UpsertApply
    \/ ImportCollectionEnd

SpecScript == InitS /\ [][NextS]_vars

\* the script up to the end of its two fetches
NextF ==
    \/ ScriptStart
    \/ ScriptFetch
    \/ DataChanges

SpecFetch == InitS /\ [][NextF]_vars

\* the script over a source that does not change, with upserts that can fail
NextU ==
    \/ ScriptStart
    \/ ScriptFetch
    \/ ImportCollectionBegin
    \/ EmbedBatch
    \/ UpsertSend
    \/ UpsertMatch
    \/ UpsertApply
    \/ UpsertFail
    \/ ImportCollectionEnd

SpecUpsert == InitS /\ [][NextU]_vars

\* concurrent first uses of getDb and of the embedding pipeline
InitC == IdleAgent /\ IdleRetrieve /\ IdleIngest /\ InitSingletons

NextC ==
    \/ GetDbCall
    \/ GetDbConnect
    \/ EmbedderCall
    \/ PipelineLoaded
    \/ EmbedderResume

SpecSingletons == InitC /\ [][NextC]_vars

----------------------------------------------------------------------------
(* Properties of the handlers *)

IsPrefix(s, t) == Len(s) <= Len(t) /\ SubSeq(t, 1, Len(s)) = s

\* the names of tryProviders for which llmMap[p] is a function, in order
KnownOrder(tp) == SelectSeq(tp, LAMBDA p : LlmMapEntry(p) \in {"provider", "Object"})

\* the providers called so far, in call order
InvokedNames == [k \in 1..Len(invoked) |-> invoked[k].p]

ErrorOutcomes == {"timeout", "auth"}

\* C1: in one request the providers are called in the order of tryProviders,
\* a call is made only after every earlier call has ended with an error, and
\* no call follows a call that returned.
C1_SequentialInOrder ==
    route = "agent" =>
        /\ IsPrefix(InvokedNames, KnownOrder(tryProviders))
        /\ \A k \in 1..(Len(invoked) - 1) : invoked[k].outcome \in ErrorOutcomes

\* a request whose first call failed and whose second call succeeded, leaving
\* the third provider uncalled
C1_Witness ==
    /\ route = "agent" /\ apc = "done"
    /\ Len(invoked) = 2
    /\ invoked[1].outcome \in ErrorOutcomes
    /\ invoked[2].outcome = "text"
    /\ Len(KnownOrder(tryProviders)) = 3

\* C2: within one request no provider is called more than once, whatever
\* provider was requested.
C2_NoProviderTwice ==
    \A j, k \in 1..Len(invoked) : j # k => invoked[j].p # invoked[k].p

\* C3: when every call made has thrown, the request is answered with an error
\* payload that carries the message of the last call's error and no answer.
C3_ExhaustedCarriesLastError ==
    (/\ route = "agent" /\ apc = "done"
     /\ Len(invoked) > 0
     /\ \A k \in 1..Len(invoked) : invoked[k].outcome \in ErrorOutcomes)
    => /\ response.status = 500
       /\ response.error = ErrorMessage(invoked[Len(invoked)].p,
                                        invoked[Len(invoked)].outcome)
       /\ "answer" \notin DOMAIN response

\* three calls that failed, the last one differently from the first
C3_Witness ==
    /\ route = "agent" /\ apc = "done"
    /\ Len(invoked) = 3
    /\ \A k \in 1..3 : invoked[k].outcome \in ErrorOutcomes
    /\ invoked[1].outcome # invoked[3].outcome
    /\ response.status = 500

\* C4: the provider a success payload names is the one whose call returned
\* the answer the payload carries.
C4_ProviderIsProducer ==
    (route = "agent" /\ response.status = 200)
    => /\ Len(invoked) > 0
       /\ invoked[Len(invoked)].outcome \in {"text", "object"}
       /\ response.provider = invoked[Len(invoked)].p
       /\ response.answer = ReturnedText(response.provider,
                                         invoked[Len(invoked)].outcome)

\* a success served by a fallback provider, not by the requested one
C4_Witness ==
    /\ route = "agent" /\ response.status = 200
    /\ Len(invoked) = 3
    /\ response.provider # tryProviders[1]

\* C6: when the retrieval of one entity type fails and the other succeeds,
\* the request is still answered and carries the other type's results.
C6_RetrievalFailureIsolated ==
    /\ (route = "agent" /\ response.status = 200) =>
          /\ (confOutcome = Threw /\ jourOutcome.kind = "ok")
                => response.retrieved.journal = jourOutcome.value
          /\ (jourOutcome = Threw /\ confOutcome.kind = "ok"
                /\ Len(confOutcome.value) > 0)
                => response.retrieved.conference = confOutcome.value
    /\ route = "searchAll" =>
          /\ (confOutcome = Threw /\ jourOutcome.kind = "ok")
                => /\ response.status = 200
                   /\ response.journals = jourOutcome.value
          /\ (jourOutcome = Threw /\ confOutcome.kind = "ok")
                => /\ response.status = 200
                   /\ response.conferences = confOutcome.value

\* the part of C6 that concerns POST /api/agent alone
AgentRetrievalIsolated ==
    (route = "agent" /\ response.status = 200) =>
        /\ (confOutcome = Threw /\ jourOutcome.kind = "ok")
              => response.retrieved.journal = jourOutcome.value
        /\ (jourOutcome = Threw /\ confOutcome.kind = "ok"
              /\ Len(confOutcome.value) > 0)
              => response.retrieved.conference = confOutcome.value

\* C12: every request receives exactly one response: never two, and once the
\* handler has ended one response (a success or an error payload) was sent.
C12_ExactlyOneResponse ==
    /\ sentCount <= 1
    /\ apc = "done" => (sentCount = 1 /\ response.status \in {200, 400, 500})

\* the part of C12 that POST /api/agent meets
AgentExactlyOneResponse ==
    route = "agent" =>
        /\ sentCount <= 1
        /\ apc = "done" => (sentCount = 1 /\ response.status \in {200, 400, 500})

\* the part of C12 that every handler meets: no request is answered twice
NeverTwoResponses == sentCount <= 1

\* C17: every external call bounds its wait, so a generate call always
\* completes: a request to POST /api/agent eventually ends, with an answer or
\* with an error.
C17_GenerateCompletes == (route = "agent") ~> (apc = "done")

\* the part of C17 that holds: the handler ends whenever every provider it
\* calls answers or fails
GenerateCompletesUnlessSilent ==
    (route = "agent") ~> (apc = "done" \/ apc = "hung")

----------------------------------------------------------------------------
(* Properties of retrieve *)

\* the queries this call made to vector indexes, in order
IndexLog == SelectSeq(vlog, LAMBDA e : e.tier = "index")

IndexLogNames == [k \in 1..Len(IndexLog) |-> IndexLog[k].name]

KeywordQueried == \E k \in 1..Len(vlog) : vlog[k].tier \in {"text", "keyword"}

C5_KeywordAfterAllIndexes ==
    /\ impl = "vectorSearch" /\ vpc = "done"
    /\ Len(IndexLog) = 3
    /\ KeywordQueried
    /\ Len(vresult.value) > 0

\* what the keyword tier returns for the call's arguments
KeywordResult ==
    IF impl = "vectorSearch"
      THEN TextSearch(store[vargs.collection], vargs.q, EffectiveLimit(vargs.limit))
      ELSE SliceJs(fallbackRank(store[vargs.collection], vargs.q, vargs.collection),
                   vargs.limit)

\* C7: when embedding the query fails, retrieve does not fail: the keyword
\* tier is queried and its result is what retrieve returns.
C7_EmbeddingFailureFallsBack ==
    (vpc = "done" /\ embedFailed /\ Len(Trim(vargs.q)) > 0) =>
        /\ KeywordQueried
        /\ vresult = Fulfilled(KeywordResult)

\* the part of C7 that vectorSearch meets: with a query that is a valid
\* pattern, a failed embedding ends in the keyword tier's result
VectorSearchFallsBackOnValidPattern ==
    (impl = "vectorSearch" /\ vpc = "done" /\ embedFailed /\ RegExpValid(vargs.q)) =>
        /\ KeywordQueried
        /\ vresult = Fulfilled(KeywordResult)

\* the records a finished retrieve call returned for a non-empty query
Returned == IF vresult.kind = "ok" THEN vresult.value ELSE <<>>

AnsweredQuery == vpc = "done" /\ vresult.kind = "ok" /\ Len(Trim(vargs.q)) > 0

HasNumericScore(rec) == "score" \in DOMAIN rec /\ ~rec.score.nan

\* two scored records are in descending order, and in input order (the order
\* of the collection) when their scores are equal
InRankOrder(a, b) ==
    /\ ~ScoreLess(a.score, b.score)
    /\ ~ScoreLess(b.score, a.score) => a._id < b._id

\* C13: the list retrieve returns for a query is sorted by score, highest
\* first, on every path, and records of equal score keep their input order.
C13_SortedByScoreDesc ==
    AnsweredQuery =>
        /\ \A i \in 1..Len(Returned) : HasNumericScore(Returned[i])
        /\ \A i, j \in 1..Len(Returned) :
              i < j => InRankOrder(Returned[i], Returned[j])

\* the part of C13 that holds: a returned list whose records all carry a
\* number as score is in descending order, ties in input order
NumericScoresSorted ==
    (AnsweredQuery /\ \A i \in 1..Len(Returned) : HasNumericScore(Returned[i])) =>
        \A i, j \in 1..Len(Returned) : i < j => InRankOrder(Returned[i], Returned[j])

\* that part is not vacuous: a list of two records of different numeric score
NumericScoresSortedSeen ==
    /\ AnsweredQuery
    /\ Len(Returned) = 2
    /\ \A i \in 1..2 : HasNumericScore(Returned[i])
    /\ ScoreLess(Returned[2].score, Returned[1].score)

\* the record carries a stored embedding vector
CarriesVector(rec) ==
    \E k \in 1..Len(candidateVectorFields) : candidateVectorFields[k] \in DOMAIN rec

\* C14: no record returned by retrieve carries the stored embedding vector,
\* on any path.
C14_NoVectorInResults ==
    (vpc = "done" /\ vresult.kind = "ok") =>
        \A i \in 1..Len(vresult.value) : ~CarriesVector(vresult.value[i])

\* the part of C14 that holds: the vector tier projects the vector away
VectorTierStripsVector ==
    (/\ impl = "vectorSearch" /\ vpc = "done" /\ vresult.kind = "ok"
     /\ Len(IndexLog) > 0 /\ IndexLog[Len(IndexLog)].outcome = "hits") =>
        \A i \in 1..Len(vresult.value) : ~CarriesVector(vresult.value[i])

\* topK clamped to the range from 1 to the hard ceiling
ClampedLimit(topK) ==
    IF topK <= 0 THEN 1 ELSE IF topK > 500 THEN 500 ELSE topK

\* C15: the effective limit of retrieve is topK clamped to [1, ceiling]
\* (topK <= 0 gives 1), and retrieve never returns more records than that.
C15_LimitClamped ==
    /\ (impl = "vectorSearch" /\ vpc = "done") =>
          EffectiveLimit(vargs.limit) = ClampedLimit(vargs.limit)
    /\ (vpc = "done" /\ vresult.kind = "ok") =>
          Len(vresult.value) <= ClampedLimit(vargs.limit)

\* the part of C15 that vectorSearch meets: the limit it computes is at least
\* 1 and it never returns more records than that limit
VectorSearchWithinEffectiveLimit ==
    (impl = "vectorSearch" /\ vpc = "done" /\ vresult.kind = "ok") =>
        /\ EffectiveLimit(vargs.limit) >= 1
        /\ Len(vresult.value) <= EffectiveLimit(vargs.limit)

\* the document contains the query as a case-insensitive substring of one of
\* the searched fields
ContainsLiterally(doc, q) ==
    \E f \in (orFields \cap DOMAIN doc) : Includes(Lower(doc[f]), Lower(q))

\* the call was answered by textSearch
AnsweredByTextSearch ==
    /\ impl = "vectorSearch" /\ vpc = "done"
    /\ Len(vlog) > 0 /\ vlog[Len(vlog)].tier = "text"

\* C16: the keyword tier fails on no query string, and it returns every
\* record that contains the query as a case-insensitive substring of a
\* searched field, as long as fewer than the limit of such records precede it.
C16_KeywordFindsLiteral ==
    AnsweredByTextSearch =>
        /\ vresult.kind = "ok"
        /\ LET docs == store[vargs.collection]
               n == EffectiveLimit(vargs.limit)
           IN \A p \in 1..Len(docs) :
                 (/\ ContainsLiterally(docs[p], vargs.q)
                  /\ Cardinality({k \in 1..(p - 1) :
                                     ContainsLiterally(docs[k], vargs.q)}) < n)
                    => \E i \in 1..Len(vresult.value) :
                          vresult.value[i]._id = docs[p]._id

\* the part of C16 that textSearch meets: for a query without regular
\* expression metacharacters it does not fail and finds the literal matches
KeywordFindsPlainLiteral ==
    (AnsweredByTextSearch
        /\ \A k \in 1..Len(vargs.q) : vargs.q[k] \notin {".", "+", "("}) =>
        /\ vresult.kind = "ok"
        /\ LET docs == store[vargs.collection]
               n == EffectiveLimit(vargs.limit)
           IN \A p \in 1..Len(docs) :
                 (/\ ContainsLiterally(docs[p], vargs.q)
                  /\ Cardinality({k \in 1..(p - 1) :
                                     ContainsLiterally(docs[k], vargs.q)}) < n)
                    => \E i \in 1..Len(vresult.value) :
                          vresult.value[i]._id = docs[p]._id

----------------------------------------------------------------------------
(* Properties of ingestion *)

RunsInFlight == {r \in RunIds : InFlight(runs[r])}

\* C8: ingestion is single-flight: no run of runImport is started by boot or
\* by the schedule while another one is in flight, so at most one run is in
\* flight at any time.
C8_SingleFlight == Cardinality(RunsInFlight) <= 1

\* C9: a run over a record whose dedupe key carried a vector in the store
\* when the run started leaves that stored vector as it was: no upsert of the
\* run changes the vector of a document that had one at the start of the run.
C9_ReingestionKeepsVector ==
    [][\A r \in RunIds : \A c \in Collections : \A d \in DOMAIN runs[r].seen[c] :
          (/\ runs[r].pc = "upsert"
           /\ runs'[r] # runs[r]
           /\ "vector" \in DOMAIN runs[r].seen[c][d])
              => store'[c][d].vector = store[c][d].vector]_vars

\* the documents that carry the given _key
DocsWithKey(docs, key) ==
    {d \in 1..Len(docs) : "_key" \in DOMAIN docs[d] /\ docs[d]._key = key}

\* C10: when a run of the script ingested two new conference records of one
\* computed _key, the collection ends with exactly one document of that key
\* and the document holds the fields of the later of the two records.
C10_SameKeyLastWriteWins ==
    \A r \in RunIds :
        (runs[r].prog = "script" /\ runs[r].pc = "done") =>
            LET recs == runs[r].news["conference"]
            IN \A i, j \in 1..Len(recs) :
                  (/\ i < j
                   /\ recs[i]._key = recs[j]._key
                   /\ \A k \in (j + 1)..Len(recs) : recs[k]._key # recs[j]._key)
                      => LET ds == DocsWithKey(store["conference"], recs[j]._key)
                         IN /\ Cardinality(ds) = 1
                            /\ \A d \in ds : \A f \in DOMAIN recs[j] :
                                  store["conference"][d][f] = recs[j][f]

\* the part of C10 that fails even when the store applies each upsert in one
\* step: a single document of the key holds the later record's fields
SingleDocHoldsLaterRecord ==
    \A r \in RunIds :
        (runs[r].prog = "script" /\ runs[r].pc = "done") =>
            LET recs == runs[r].news["conference"]
            IN \A i, j \in 1..Len(recs) :
                  (/\ i < j
                   /\ recs[i]._key = recs[j]._key
                   /\ \A k \in (j + 1)..Len(recs) : recs[k]._key # recs[j]._key
                   /\ Cardinality(DocsWithKey(store["conference"], recs[j]._key)) = 1)
                      => \A d \in DocsWithKey(store["conference"], recs[j]._key) :
                            \A f \in DOMAIN recs[j] :
                                store["conference"][d][f] = recs[j][f]

\* the part of C10 about the number of documents alone
SameKeyOneDocument ==
    \A r \in RunIds :
        (runs[r].prog = "script" /\ runs[r].pc = "done") =>
            LET recs == runs[r].news["conference"]
            IN \A i \in 1..Len(recs) :
                  Cardinality(DocsWithKey(store["conference"], recs[i]._key)) = 1

\* the run ended in a failed fetch: the attempts of fetchJsonStream are used up
FailedInFetch(run) ==
    run.prog = "script" /\ run.pc = "failed" /\ run.attempt = retries

\* the run ended in a failed embedBatch inside importCollection
FailedInEmbed(run) == run.pc = "failed" /\ Len(run.contents) > 0

\* every record the run holds of the entity type has a document of its key
Ingested(run, name) ==
    LET recs == RecordsOf(run.prog, name, run.data)
        f == KeyField(run.prog, name)
    IN \A i \in 1..Len(recs) : FirstMatch(store[name], f, Field(recs[i], f), 1) > 0

\* C11: a fetch or embedding failure for one entity type aborts only that
\* entity type: when a run has ended in such a failure, the records it holds
\* of the other entity type have been ingested.
C11_FailureAbortsOneTypeOnly ==
    \A r \in RunIds :
        (FailedInFetch(runs[r]) \/ FailedInEmbed(runs[r])) =>
            \A name \in Collections \ {NameOf(runs[r])} : Ingested(runs[r], name)

\* the part of C11 that holds: once no run is in flight, so after a failed
\* fetch or a failed embedding too, the store is left as it is
EndedRunsWriteNothing ==
    [][(\A r \in RunIds : ~InFlight(runs[r])) => store' = store]_vars



\* the number of failed attempts among the first k entries of a fetch's log
FailsUpTo(log, k) == Cardinality({j \in 1..k : log[j] = "fail"})

\* the attempts a fetch's log holds
AttemptsOf(log) == Cardinality({j \in 1..Len(log) : log[j] \in {"fail", "ok"}})

\* a fetch's log is that of at most 3 attempts: nothing follows a success, the
\* timer follows each of the first two failures and only them, the throw
\* follows the third
FetchLogShape(log) ==
    /\ AttemptsOf(log) <= 3
    /\ \A k \in 1..Len(log) :
          /\ log[k] = "ok" => k = Len(log)
          /\ log[k] = "throw" => k = Len(log)
          /\ log[k] = "fail" =>
                /\ k < Len(log)
                /\ log[k + 1] = (IF FailsUpTo(log, k) < 3 THEN "wait" ELSE "throw")
          /\ log[k] = "wait" =>
                /\ k > 1 /\ log[k - 1] = "fail"
                /\ k < Len(log) => log[k + 1] \in {"fail", "ok"}

\* a step in which a fetch returns gives the run the body the source serves
FetchReturnsBody ==
    \A r \in RunIds :
        ( /\ runs[r].prog = "script" /\ runs[r].pc = "fetch"
          /\ runs'[r] # runs[r]
          /\ runs'[r].fetchLog # <<>>
          /\ runs'[r].fetchLog[Len(runs'[r].fetchLog)] = "ok" )
        => runs'[r].data[NameOf(runs[r])] = sourceData[NameOf(runs[r])]

\* C20: fetchJsonStream makes at most 3 attempts; the first successful attempt
\* returns the records and ends the call; the 5 s timer runs between a failed
\* attempt and the next and not after the last; the call throws exactly after
\* the 3rd consecutive failure, and a run fails in its fetch only so.
C20_FetchRetries ==
    /\ [](\A r \in RunIds :
            /\ FetchLogShape(runs[r].fetchLog)
            /\ (runs[r].pc = "fetch" /\ runs[r].attempt > 1) =>
                   runs[r].fetchLog[Len(runs[r].fetchLog)] = "wait"
            /\ (runs[r].fetchLog # <<>>
                    /\ runs[r].fetchLog[Len(runs[r].fetchLog)] # "ok") =>
                   /\ runs[r].pc \in {"fetch", "failed"}
                   /\ runs[r].pc = "failed" <=>
                          runs[r].fetchLog =
                              <<"fail", "wait", "fail", "wait", "fail", "throw">>)
    /\ [][FetchReturnsBody]_vars

\* a fetch succeeded at its third attempt, after two timers
C20_Witness ==
    \E r \in RunIds :
        /\ runs[r].fetchLog = <<"fail", "wait", "fail", "wait", "ok">>
        /\ runs[r].pc \in {"fetch", "collection"}

\* a fetch failed three times and threw, without a third timer
FetchExhaustedSeen ==
    \E r \in RunIds :
        /\ runs[r].pc = "failed"
        /\ runs[r].fetchLog = <<"fail", "wait", "fail", "wait", "fail", "throw">>

----------------------------------------------------------------------------
(* Properties of the singletons (SpecSingletons)                             *)

\* the callers of getDb that got a handle
ServedByGetDb == {c \in Callers : callers[c].target = "getDb" /\ callers[c].pc = "done"}

\* C18: under any interleaving of concurrent first calls to getDb, at most one
\* MongoClient is constructed and connected, and every caller gets the handle
\* of the same client.
C18_OneConnection ==
    /\ Cardinality(connected) <= 1
    /\ \A c, d \in ServedByGetDb : callers[c].got = callers[d].got

\* what does hold of getDb: a call that starts after _db is set constructs
\* nothing, so a caller constructs a client only while _db is unset, and every
\* handle returned is the one of a client that was constructed
GetDbHandlesAreOfConstructedClients ==
    /\ \A c \in ServedByGetDb : callers[c].got \in 1..made
    /\ gdb # 0 => gdb \in 1..made

\* the callers that went through the embedder's guard
UsedEmbedder == {c \in Callers : callers[c].target = "embedder" /\ callers[c].pc # "call"}

\* C19: under any interleaving of concurrent first uses, pipeline(...) is
\* called, and the model loaded, at most once, and every caller that is served
\* is served that one pipeline.
C19_OnePipeline ==
    /\ loads <= 1
    /\ \A c \in UsedEmbedder : callers[c].pc = "done" => callers[c].got = 1

\* what does hold: behind getEmbedder, which stores the promise of
\* pipeline(...) before anything is awaited, the model is loaded once
GetEmbedderLoadsOnce ==
    embGuard = "getEmbedder" =>
        /\ loads <= 1
        /\ \A c \in UsedEmbedder : callers[c].pc = "done" => callers[c].got = 1

\* three callers were all served through getEmbedder
GetEmbedderLoadsOnceSeen ==
    /\ embGuard = "getEmbedder"
    /\ Cardinality(UsedEmbedder) = MaxCallers
    /\ \A c \in UsedEmbedder : callers[c].pc = "done"

----------------------------------------------------------------------------
(* Properties of the embedding and upsert phases of importCollection         *)

\* the vectors of the run pair with its records: vectors[i] is the embedding
\* of contents[i] for every record of the collection being imported
VectorsPairWithRecords(run) ==
    \A i \in 1..Len(run.records) :
        VectorAt(run.vectors, i) = EmbedOf(run.contents[i])

\* C21: once the embedding loop of importCollection has ended, the vector that
\* is written with record i is the embedding of record i's own input string,
\* for every i and every number of records.
C21_VectorOfOwnRecord ==
    \A r \in RunIds : runs[r].pc = "upsert" => VectorsPairWithRecords(runs[r])

\* what does hold: the script's embedBatch indexes the result by text, and
\* import.js pairs each record with its own vector when the pipeline returns
\* a list of one output per text
VectorOfOwnRecordByText ==
    \A r \in RunIds :
        (runs[r].pc = "upsert" /\ (runs[r].prog = "script" \/ outputs = "array"))
            => VectorsPairWithRecords(runs[r])

\* a run went through two chunks, the second one short, and pairs correctly
VectorOfOwnRecordByTextSeen ==
    \E r \in RunIds :
        /\ runs[r].pc = "upsert"
        /\ Len(runs[r].records) = BATCH_SIZE + 1
        /\ VectorsPairWithRecords(runs[r])

\* C22: while a run upserts, at most the limiter's number of store writes are
\* in flight; an updateOne is called at most once for a record, there is one
\* queued function for every record selected, and when the upserts of a
\* collection ended without a failure every one of them was made exactly once
\* and was applied.
C22_BoundedUpsertsOnceEach ==
    \A r \in RunIds :
        /\ Cardinality(ActiveOps(runs[r])) <= POOL_LIMIT
        /\ \A k \in DOMAIN runs[r].ops : runs[r].ops[k].n <= 1
        /\ runs[r].pc = "upsert" => DOMAIN runs[r].ops = 1..Len(runs[r].records)
        /\ runs[r].pc \in {"collection", "done"} =>
              \A k \in DOMAIN runs[r].ops :
                  runs[r].ops[k].st = "done" /\ runs[r].ops[k].n = 1

\* the limiter is full and holds a record back
C22_Witness ==
    \E r \in RunIds :
        /\ runs[r].pc = "upsert"
        /\ Cardinality(ActiveOps(runs[r])) = POOL_LIMIT
        /\ \E k \in DOMAIN runs[r].ops : runs[r].ops[k].st = "queued"

\* the upserts of three records ended, each made once
UpsertsOnceEachSeen ==
    \E r \in RunIds :
        /\ runs[r].pc \in {"collection", "done"}
        /\ Len(runs[r].ops) = 3
        /\ \A k \in DOMAIN runs[r].ops : runs[r].ops[k].st = "done" /\ runs[r].ops[k].n = 1

\* the run has ended and, in the script, main has closed the client
EndedAndClosed(run) == run.prog = "script" /\ run.pc \in {"done", "failed"}

\* C27: when a run of the script has ended and the connection is closed, no
\* upsert of the run is in flight and none is left to start: every upsert of
\* the run has ended.
C27_NoUpsertAfterClose ==
    \A r \in RunIds :
        EndedAndClosed(runs[r]) =>
            \A k \in DOMAIN runs[r].ops : runs[r].ops[k].st \in {"done", "failed"}

\* what does hold: a run that ended without a failed upsert leaves no upsert
\* behind
NoUpsertAfterQuietEnd ==
    \A r \in RunIds :
        (EndedAndClosed(runs[r]) /\ \A k \in DOMAIN runs[r].ops : runs[r].ops[k].st # "failed")
            => \A k \in DOMAIN runs[r].ops : runs[r].ops[k].st = "done"

\* an upsert was applied to the store for a run that had ended
WriteAfterCloseSeen ==
    \E r \in RunIds :
        /\ EndedAndClosed(runs[r])
        /\ \E j, k \in DOMAIN runs[r].ops :
              /\ j < k
              /\ runs[r].ops[j].st = "failed"
              /\ runs[r].ops[k].st = "done"
              /\ \A i \in DOMAIN runs[r].ops : runs[r].ops[i].st \in {"done", "failed"}

\* a store write is the upsert of a run whose embedding loop has ended
WritesFollowEmbedding ==
    \A c \in Collections :
        store'[c] # store[c] =>
            \E r \in RunIds :
                /\ Upserting(runs[r])
                /\ NameOf(runs[r]) = c
                /\ runs[r].i >= Len(runs[r].contents)
                /\ \E k \in DOMAIN runs[r].ops :
                      runs[r].ops[k].st = "matched" /\ runs'[r].ops[k].st = "done"

\* the run ended in a failed embedBatch: the embedding loop did not reach the
\* end of contents
EmbeddingFailed(run) == run.pc = "failed" /\ run.i < Len(run.contents)

\* C28: within importCollection every embedding batch completes before the
\* first upsert is issued: a run that is embedding, or that ended in a failed
\* embedding batch, has issued no upsert for the collection, and every write
\* to the store comes from a run whose embedding loop has ended.
C28_EmbedBeforeUpsert ==
    /\ [](\A r \in RunIds :
            (runs[r].pc = "embed" \/ EmbeddingFailed(runs[r])) => runs[r].ops = <<>>)
    /\ [][WritesFollowEmbedding]_vars

\* the second embedding batch of a collection failed and the collection is as
\* the run found it
C28_Witness ==
    \E r \in RunIds :
        /\ EmbeddingFailed(runs[r])
        /\ runs[r].i > 0
        /\ runs[r].ops = <<>>
        /\ store[NameOf(runs[r])] = runs[r].seen[NameOf(runs[r])]

----------------------------------------------------------------------------
(* Properties of the retrieve calls over a store that is filled meanwhile    *)
(* (SpecRetrieveLoaded)                                                      *)

\* some document of the collection holds the field
FieldPresent(docs, f) == \E i \in 1..Len(docs) : f \in DOMAIN docs[i]

\* C23: the cached vector field of an entity type is re-resolved when it
\* matches nothing: whenever vectorSearch has resolved its path and no
\* document of the collection holds that field, the path is what a fresh
\* probe of the candidate fields gives, so a field that appeared since the
\* first resolution is the one that is queried.
C23_FieldCacheReResolved ==
    (impl = "vectorSearch" /\ vpc = "index"
        /\ ~FieldPresent(store[vargs.collection], vpath))
        => vpath = ProbeVectorField(store[vargs.collection])

\* what does hold: a resolution that finds the cache empty probes the
\* candidate fields, and an entry of the cache is never changed or removed
FieldResolvedOnceAndKept ==
    [][\A c \in Collections :
          /\ fieldCache[c] # "" => fieldCache'[c] = fieldCache[c]
          /\ (fieldCache[c] = "" /\ fieldCache'[c] # "")
                => fieldCache'[c] = ProbeVectorField(store[c])]_vars

----------------------------------------------------------------------------
(* Properties of vectorSearch for an empty query, and of the cached load     *)

\* the call in progress is vectorSearch with an empty or whitespace-only query
EmptyQueryCall == impl = "vectorSearch" /\ callNo > 0 /\ Len(Trim(vargs.q)) = 0

\* the records are documents of the collection, newest first, none twice
NewestFirst(recs, docs) ==
    /\ \A i \in 1..Len(recs) : \E d \in 1..Len(docs) : recs[i] = docs[d]
    /\ \A i, j \in 1..Len(recs) : i < j => recs[i]._id > recs[j]._id
    /\ \A i \in 1..Len(recs) : \A d \in 1..Len(docs) :
          docs[d]._id > recs[i]._id => \E j \in 1..(i - 1) : recs[j] = docs[d]

\* an empty query is answered by the most-recent tier alone, newest first, with
\* no more than `most` records
EmptyQueryAnswer(most) ==
    /\ vpc \in {"start", "done"}
    /\ qv = <<>>
    /\ vpc = "done" =>
          /\ vlog = << [tier |-> "recent", name |-> "", outcome |-> "ok"] >>
          /\ vresult.kind = "ok"
          /\ NewestFirst(vresult.value, store[vargs.collection])
          /\ Len(vresult.value) <= most

\* C24: retrieve with an empty or whitespace-only query never calls the
\* embedding model and never runs the vector or the keyword tier: it returns
\* the most recent records, newest first, at most the effective limit (topK
\* clamped to [1, ceiling]).
C24_EmptyQueryMostRecent ==
    EmptyQueryCall => EmptyQueryAnswer(ClampedLimit(vargs.limit))

\* what does hold: the same with the limit vectorSearch computes,
\* Math.max(1, Number(limit) || 5), and as many records as that limit allows
EmptyQueryMostRecentWithin ==
    EmptyQueryCall =>
        /\ EmptyQueryAnswer(EffectiveLimit(vargs.limit))
        /\ vpc = "done" =>
              Len(vresult.value) = Min(EffectiveLimit(vargs.limit),
                                       Len(store[vargs.collection]))

\* a whitespace-only query was answered with the two newest of three records
EmptyQueryMostRecentSeen ==
    /\ EmptyQueryCall /\ vpc = "done"
    /\ vargs.q = <<" ">>
    /\ Len(vresult.value) = 2 /\ Len(store[vargs.collection]) = 3

\* the in-memory ranking compared the query vector with a stored vector of
\* another dimension
DimensionMismatched ==
    /\ impl = "safeRank" /\ vpc = "done"
    /\ \E d \in 1..Len(store[vargs.collection]) :
          /\ "vector" \in DOMAIN store[vargs.collection][d]
          /\ Len(store[vargs.collection][d].vector) # Len(qv)

\* C25: when the query vector's dimension differs from that of a stored
\* vector, the in-memory similarity computation fails the call with an error
\* instead of producing a score for that record.
C25_DimensionMismatchFatal == DimensionMismatched => vresult.kind = "threw"

\* what the code does instead: the call is fulfilled, and every record of the
\* result carries a score, NaN or a number
DimensionMismatchIsScored ==
    DimensionMismatched =>
        /\ vresult.kind = "ok"
        /\ \A i \in 1..Len(vresult.value) : "score" \in DOMAIN vresult.value[i]

\* a record whose vector has another dimension than the query's was returned
\* with a score
DimensionMismatchIsScoredSeen ==
    /\ DimensionMismatched
    /\ \E i \in 1..Len(vresult.value) :
          /\ "vector" \in DOMAIN vresult.value[i]
          /\ Len(vresult.value[i].vector) # Len(qv)

----------------------------------------------------------------------------
(* Properties of the provider loop: returned attempts and unknown names      *)

\* the calls of the request that returned without throwing
ReturnedCalls == {k \in 1..Len(invoked) : invoked[k].outcome \in {"text", "empty"}}

\* C26: whenever some provider's call returned without throwing, an empty
\* string included, the request is answered with a success payload that names
\* that provider; it is never answered as a failure of the providers.
C26_ReturnedIsSuccess ==
    (route = "agent" /\ apc = "done") =>
        \A k \in ReturnedCalls :
            /\ response.status = 200
            /\ response.provider = invoked[k].p

\* what does hold: a call that returned a non-empty text is answered with a
\* success payload naming its provider, and no call is made after a return
TextReturnedIsSuccess ==
    /\ (route = "agent" /\ apc = "done") =>
          \A k \in ReturnedCalls :
              invoked[k].outcome = "text" =>
                  response.status = 200 /\ response.provider = invoked[k].p
    /\ \A k \in ReturnedCalls : k = Len(invoked)

\* a call returned "" after an earlier one threw, and the request was answered
\* with the earlier call's error
EmptyReturnedAsFailureSeen ==
    /\ route = "agent" /\ apc = "done"
    /\ Len(invoked) = 2
    /\ invoked[2].outcome = "empty"
    /\ response.status = 500
    /\ response.error = ErrorMessage(invoked[1].p, invoked[1].outcome)

\* the errors a call of one of llmMap's four providers can throw
ProviderErrors == {ErrorMessage(p, o) : p \in llmMap, o \in ErrorOutcomes}

\* C30: in the provider loop a name that has no entry in llmMap is skipped: it
\* is not invoked and no error is recorded for it; when no name of the list
\* has an entry, nothing is invoked and the request fails with the generic
\* "All providers failed" error.
C30_UnknownNameSkipped ==
    route = "agent" =>
        /\ \A k \in 1..Len(invoked) : invoked[k].p \in llmMap
        /\ lastError \in {NULL} \cup ProviderErrors
        /\ (apc = "done" /\ Len(tryProviders) > 0
               /\ \A k \in 1..Len(tryProviders) : tryProviders[k] \notin llmMap)
              => /\ invoked = <<>>
                 /\ response = [status |-> 500, error |-> "All providers failed"]

\* what does hold: a name for which the lookup llmMap[p] gives undefined is
\* skipped, with no call and no error
UndefinedNameSkipped ==
    route = "agent" =>
        /\ \A k \in 1..Len(invoked) : LlmMapEntry(invoked[k].p) # "undefined"
        /\ (LlmMapEntry(ToLowerCase(req.provider)) = "undefined"
               /\ ~Falsy(req.provider) /\ pidx = 2 /\ apc = "loop")
              => invoked = <<>> /\ lastError = NULL

\* a request for an unknown provider was served by the first fallback
UndefinedNameSkippedSeen ==
    /\ route = "agent" /\ apc = "done"
    /\ req.provider = "claude"
    /\ response.status = 200
    /\ InvokedNames = <<"openai">>

\* a request for the provider "constructor" was answered with a success
\* payload that names it
InheritedNameServedSeen ==
    /\ route = "agent" /\ apc = "done"
    /\ response.status = 200
    /\ response.provider = "constructor"

\* C29: in search.js the promise of the model load is created once and stays
\* cached when the load fails: no second load is started in the process, and
\* from the failure on every non-empty query gets no query vector and is
\* answered by the keyword tier alone.
C29_FailedLoadStaysCached ==
    impl = "vectorSearch" =>
        /\ Len(embedLoads) <= 1
        /\ (embedder = "failed" /\ Len(Trim(vargs.q)) > 0
               /\ vpc \notin {"idle", "start", "embed"})
              => /\ qv = <<>>
                 /\ vpc \in {"text", "done"}
                 /\ \A k \in 1..Len(vlog) : vlog[k].tier = "text"

\* the load failed during the first call, and the second call, a non-empty
\* query, was answered by the keyword tier
C29_Witness ==
    /\ impl = "vectorSearch"
    /\ embedder = "failed" /\ embedLoads = <<1>>
    /\ callNo = 2 /\ vpc = "done"
    /\ Len(Trim(vargs.q)) > 0
    /\ vresult.kind = "ok" /\ Len(vresult.value) > 0
    /\ Len(vlog) = 1 /\ vlog[1].tier = "text"

====
